---- MODULE Spec2Model ----
(***************************************************************************)
(* claudeforge: the offline-resilient synchronisation subsystem.           *)
(*                                                                         *)
(* Server part (forgeserver): the reconciliation store (db.py), request    *)
(* validation (models.py) and the /v1/sync endpoint (routers/sync.py).     *)
(* Client part (forgeclient): the pending queue (local_cache.py), the     *)
(* persisted configuration (config.py) and the sync orchestrator          *)
(* (sync.py).                                                              *)
(*                                                                         *)
(* Calendar dates are day numbers (ISO 'YYYY-MM-DD' strings order the same *)
(* way as the days they name); a string that strptime cannot parse is the  *)
(* value NotADate.                                                         *)
(***************************************************************************)
EXTENDS Integers, Sequences, FiniteSets, TLC

\* ------------------------------------------------------------------------
\* Program constants
\* ------------------------------------------------------------------------
PROTOCOL_VERSION == 1
MAX_SYNC_DAYS == 365

\* ------------------------------------------------------------------------
\* Bounds of the server model
\* ------------------------------------------------------------------------
\* days the server clock may advance
MaxDays == 1
\* requests served in one behaviour
MaxCalls == 2
\* the widest window a daily stats query asks for, in days
MaxStatsDays == 2
\* how often the server's time advances, and by how many seconds
MaxSteps == 1
STEP == 60
\* the same in half windows, for the rate limit on its own
MaxTicks == 2
TICK == 30
\* submissions the server receives in one behaviour of concurrent handlers
MaxSubmissions == 2

\* ------------------------------------------------------------------------
\* Values
\* ------------------------------------------------------------------------
None == "None"
NotADate == 0 - 1
StartDay == MAX_SYNC_DAYS + 2

\* a set of numbers in ascending order (sorted(...), ORDER BY ... ASC)
Sorted(S) ==
  [i \in 1 .. Cardinality(S) |-> CHOOSE d \in S : Cardinality({e \in S : e < d}) = i - 1]

Hostnames == {"h1", "h2"}
Models == {"opus", "sonnet"}

\* the date strings a client may send: one day beyond the window, the
\* window's oldest day, today, tomorrow (all as of StartDay) and a string
\* that does not parse
Dates ==
  {StartDay - MAX_SYNC_DAYS - 1, StartDay - MAX_SYNC_DAYS, StartDay, StartDay + 1,
   NotADate}

\* the records a client may send: one per date string, and a second one with
\* other counters for today (and for the first model)
ActivityRecord(d, c) ==
  [date |-> d, message_count |-> c[1], session_count |-> c[2], tool_call_count |-> c[3]]

UsageRecord(d, c) ==
  [date |-> d, input_tokens |-> c[1], output_tokens |-> c[2],
   cache_read_tokens |-> c[3], cache_creation_tokens |-> c[4]]

ModelRecord(m, c) ==
  [model |-> m, input_tokens |-> c[1], output_tokens |-> c[2],
   cache_read_tokens |-> c[3], cache_creation_tokens |-> c[4]]

ActivityRecords ==
  {ActivityRecord(d, <<10, 1, 5>>) : d \in Dates}
    \cup {ActivityRecord(StartDay, <<4, 2, 0>>)}

UsageRecords ==
  {UsageRecord(d, <<400, 600, 0, 0>>) : d \in Dates}
    \cup {UsageRecord(StartDay, <<1, 2, 3, 4>>)}

ModelRecords ==
  {ModelRecord(m, <<500, 100, 7, 3>>) : m \in Models}
    \cup {ModelRecord("opus", <<100, 100, 0, 0>>)}

\* the fields class SyncRequest declares
SyncRequestFields ==
  {"protocol_version", "hostname", "daily_activity", "daily_usage", "model_usage"}

\* the requests with ka, ku and km records in their three lists
RequestsOfShape(ka, ku, km) ==
  [protocol_version : {PROTOCOL_VERSION},
   hostname : Hostnames,
   daily_activity : [1 .. ka -> ActivityRecords],
   daily_usage : [1 .. ku -> UsageRecords],
   model_usage : [1 .. km -> ModelRecords]]

\* how many records the requests carry in daily_activity, daily_usage and
\* model_usage
RequestShapes ==
  {<<0, 0, 0>>, <<1, 0, 0>>, <<0, 1, 0>>, <<0, 0, 1>>, <<2, 0, 0>>, <<0, 2, 0>>,
   <<0, 0, 2>>, <<1, 1, 0>>, <<1, 0, 1>>, <<0, 1, 1>>}

SyncRequests == UNION {RequestsOfShape(s[1], s[2], s[3]) : s \in RequestShapes}

\* ------------------------------------------------------------------------
\* models.py: validation
\* ------------------------------------------------------------------------
\* datetime.strptime(v, '%Y-%m-%d') succeeds
Parses(v) == v # NotADate

\* (datetime.now() - parsed).days: whole days between midnight of the parsed
\* date and now (floor, also for a negative difference)
AgeDays(v, today) == today - v

\* validate_date_format rejecting the window's oldest day as well
validate_date_format_Strict(v, today) ==
  /\ Parses(v)
  /\ ~(AgeDays(v, today) >= MAX_SYNC_DAYS)
  /\ ~(v > today)

validate_date_format(v, today) ==
  /\ Parses(v)
  /\ ~(AgeDays(v, today) > MAX_SYNC_DAYS)
  /\ ~(v > today)

\* the counters without Field(ge=0)
NonNegative_Any(rec, fields) == TRUE

\* Field(ge=0) on every counter
NonNegative(rec, fields) == \A f \in fields : rec[f] >= 0

\* len(hostname): two hostnames of the model stand for strings of 255 and
\* of 256 characters
FullHostname == "h-of-255-characters"
LongHostname == "h-of-256-characters"
HostnameLength(hostname) ==
  CASE hostname = "" -> 0
    [] hostname = FullHostname -> 255
    [] hostname = LongHostname -> 256
    [] OTHER -> 2

ActivityFields == {"message_count", "session_count", "tool_call_count"}
TokenFields ==
  {"input_tokens", "output_tokens", "cache_read_tokens", "cache_creation_tokens"}

ValidActivityRecord(rec, today) ==
  validate_date_format(rec.date, today) /\ NonNegative(rec, ActivityFields)

ValidUsageRecord(rec, today) ==
  validate_date_format(rec.date, today) /\ NonNegative(rec, TokenFields)

ValidModelRecord(rec) == rec.model # "" /\ NonNegative(rec, TokenFields)

ValidSyncRequest(r, today) ==
  /\ r.protocol_version >= 1 /\ r.protocol_version <= PROTOCOL_VERSION
  /\ HostnameLength(r.hostname) >= 1 /\ HostnameLength(r.hostname) <= 255
  /\ Len(r.daily_activity) <= MAX_SYNC_DAYS
  /\ Len(r.daily_usage) <= MAX_SYNC_DAYS
  /\ \A i \in 1 .. Len(r.daily_activity) : ValidActivityRecord(r.daily_activity[i], today)
  /\ \A i \in 1 .. Len(r.daily_usage) : ValidUsageRecord(r.daily_usage[i], today)
  /\ \A i \in 1 .. Len(r.model_usage) : ValidModelRecord(r.model_usage[i])

\* ------------------------------------------------------------------------
\* db.py: the reconciliation store
\* ------------------------------------------------------------------------
\* a table is a function from its UNIQUE key to the row's other columns
EmptyTable == [k \in {} |-> None]

\* init_db on a fresh database file
EmptyDb ==
  [machines |-> EmptyTable, daily_activity |-> EmptyTable,
   daily_usage |-> EmptyTable, model_usage |-> EmptyTable]

Put(table, key, row) ==
  [k \in (DOMAIN table) \cup {key} |-> IF k = key THEN row ELSE table[k]]

\* INSERT INTO machines (hostname) ... ON CONFLICT(hostname) DO UPDATE SET
\* last_sync = now, is_active = 1
UpsertMachine(machines, hostname, now) ==
  IF hostname \in DOMAIN machines
    THEN [machines EXCEPT ![hostname] = [@ EXCEPT !.last_sync = now, !.is_active = 1]]
    ELSE Put(machines, hostname,
             [first_seen |-> now, last_sync |-> now, is_active |-> 1])

\* INSERT INTO daily_activity ... ON CONFLICT(hostname, date) DO UPDATE SET
\* every counter = excluded.counter, updated_at = now
UpsertDailyActivity(table, hostname, record, now) ==
  Put(table, <<hostname, record.date>>,
      [message_count |-> record.message_count,
       session_count |-> record.session_count,
       tool_call_count |-> record.tool_call_count,
       updated_at |-> now])

\* daily_usage keyed by the date alone: the row written replaces the rows
\* other hostnames hold for the date
UpsertDailyUsage_ByDate(table, hostname, record, now) ==
  LET kept == {k \in DOMAIN table : k[2] # record.date}
  IN Put([k \in kept |-> table[k]], <<hostname, record.date>>,
         [input_tokens |-> record.input_tokens,
          output_tokens |-> record.output_tokens,
          cache_read_tokens |-> record.cache_read_tokens,
          cache_creation_tokens |-> record.cache_creation_tokens,
          updated_at |-> now])

\* INSERT INTO daily_usage ... ON CONFLICT(hostname, date) DO UPDATE SET ...
UpsertDailyUsage(table, hostname, record, now) ==
  Put(table, <<hostname, record.date>>,
      [input_tokens |-> record.input_tokens,
       output_tokens |-> record.output_tokens,
       cache_read_tokens |-> record.cache_read_tokens,
       cache_creation_tokens |-> record.cache_creation_tokens,
       updated_at |-> now])

\* INSERT INTO model_usage ... ON CONFLICT(hostname, model) DO UPDATE SET ...
UpsertModelUsage(table, hostname, record, now) ==
  Put(table, <<hostname, record.model>>,
      [input_tokens |-> record.input_tokens,
       output_tokens |-> record.output_tokens,
       cache_read_tokens |-> record.cache_read_tokens,
       cache_creation_tokens |-> record.cache_creation_tokens,
       updated_at |-> now])

\* the three "for record in request.<list>" loops, from entry i on
RECURSIVE ActivityLoop(_, _, _, _, _)
ActivityLoop(table, hostname, records, i, now) ==
  IF i > Len(records) THEN table
  ELSE ActivityLoop(UpsertDailyActivity(table, hostname, records[i], now),
                    hostname, records, i + 1, now)

RECURSIVE UsageLoop(_, _, _, _, _)
UsageLoop(table, hostname, records, i, now) ==
  IF i > Len(records) THEN table
  ELSE UsageLoop(UpsertDailyUsage(table, hostname, records[i], now),
                 hostname, records, i + 1, now)

RECURSIVE ModelLoop(_, _, _, _, _)
ModelLoop(table, hostname, records, i, now) ==
  IF i > Len(records) THEN table
  ELSE ModelLoop(UpsertModelUsage(table, hostname, records[i], now),
                 hostname, records, i + 1, now)

\* request.raw_usage: attribute access on a SyncRequest. The class declares
\* no such field (and ignores one sent on the wire), so the access raises
\* AttributeError.
HasRawUsage == "raw_usage" \in SyncRequestFields

\* the body of "with get_db() as conn" in sync_usage: the connection's
\* working state after the statements that ran, whether the body raised,
\* and the values it computed
SyncBody(conn, request, now) ==
  LET registered == request.hostname \notin DOMAIN conn.machines
      c1 == [conn EXCEPT !.machines = UpsertMachine(@, request.hostname, now)]
      c2 == [c1 EXCEPT !.daily_activity =
               ActivityLoop(@, request.hostname, request.daily_activity, 1, now)]
      c3 == [c2 EXCEPT !.daily_usage =
               UsageLoop(@, request.hostname, request.daily_usage, 1, now)]
      c4 == [c3 EXCEPT !.model_usage =
               ModelLoop(@, request.hostname, request.model_usage, 1, now)]
      count == Len(request.daily_activity) + Len(request.daily_usage)
                 + Len(request.model_usage)
  IN [conn |-> c4, raised |-> ~HasRawUsage, count |-> count,
      registered |-> registered]

\* get_db committing whatever the body did, also when it raised
get_db_NoRollback(before, body) == body.conn

\* get_db: commit when the body returns, rollback when it raises
get_db(before, body) == IF body.raised THEN before ELSE body.conn

\* sync_usage: the store it leaves and what it returns or raises
sync_usage(store, request, now) ==
  LET body == SyncBody(store, request, now)
  IN [db |-> get_db(store, body), raised |-> body.raised,
      count |-> body.count, registered |-> body.registered]

\* ------------------------------------------------------------------------
\* db.py: the aggregate queries
\* ------------------------------------------------------------------------
\* JOIN machines m ON t.hostname = m.hostname AND m.is_active = 1: the keys
\* of a table's rows that belong to an active machine
ActiveKeys(store, table) ==
  {k \in DOMAIN table : k[1] \in DOMAIN store.machines /\ store.machines[k[1]].is_active = 1}

\* SUM(field) over the rows with the given keys
RECURSIVE Sum(_, _, _)
Sum(table, keys, field) ==
  IF keys = {}
    THEN 0
    ELSE LET k == CHOOSE x \in keys : TRUE
         IN table[k][field] + Sum(table, keys \ {k}, field)

\* the members of a set, listed in the order the query meets them
RECURSIVE Listed(_)
Listed(S) ==
  IF S = {} THEN <<>>
  ELSE LET x == CHOOSE y \in S : TRUE IN <<x>> \o Listed(S \ {x})

\* hostname.split(','): the one hostname of the model with a comma in it
\* falls into two pieces
SplitComma(hostname) == IF hostname = "a,b" THEN <<"a", "b">> ELSE <<hostname>>

\* GROUP_CONCAT(DISTINCT du.hostname).split(','): the hostnames are joined
\* with commas and the string is cut at every comma
RECURSIVE GroupConcatSplit(_)
GroupConcatSplit(hostnames) ==
  IF hostnames = <<>> THEN <<>>
  ELSE SplitComma(Head(hostnames)) \o GroupConcatSplit(Tail(hostnames))

\* get_daily_stats(days) at date `now`
get_daily_stats(store, now, days) ==
  LET usage == {k \in ActiveKeys(store, store.daily_usage) : k[2] >= now - days}
      activity == {k \in ActiveKeys(store, store.daily_activity) : k[2] >= now - days}
      dates == Sorted({k[2] : k \in usage})
      Row(d) ==
        LET ku == {k \in usage : k[2] = d}
            ka == {k \in activity : k[2] = d}
            tokens == [f \in TokenFields |-> Sum(store.daily_usage, ku, f)]
        IN [date |-> d,
            total_tokens |-> tokens.input_tokens + tokens.output_tokens
                               + tokens.cache_read_tokens + tokens.cache_creation_tokens,
            input_tokens |-> tokens.input_tokens,
            output_tokens |-> tokens.output_tokens,
            cache_read_tokens |-> tokens.cache_read_tokens,
            cache_creation_tokens |-> tokens.cache_creation_tokens,
            message_count |-> Sum(store.daily_activity, ka, "message_count"),
            session_count |-> Sum(store.daily_activity, ka, "session_count"),
            tool_call_count |-> Sum(store.daily_activity, ka, "tool_call_count"),
            machines |-> GroupConcatSplit(Listed({k[1] : k \in ku}))]
  IN [i \in 1 .. Len(dates) |-> Row(dates[i])]

\* get_model_stats: one entry per model with a row of an active machine,
\* given here by model; the order of the list is left out
get_model_stats(store) ==
  LET keys == ActiveKeys(store, store.model_usage)
      Entry(m) ==
        LET km == {k \in keys : k[2] = m}
            tokens == [f \in TokenFields |-> Sum(store.model_usage, km, f)]
        IN [model |-> m,
            input_tokens |-> tokens.input_tokens,
            output_tokens |-> tokens.output_tokens,
            cache_read_tokens |-> tokens.cache_read_tokens,
            cache_creation_tokens |-> tokens.cache_creation_tokens,
            total_tokens |-> tokens.input_tokens + tokens.output_tokens
                               + tokens.cache_read_tokens + tokens.cache_creation_tokens]
  IN [m \in {k[2] : k \in keys} |-> Entry(m)]

\* get_totals
get_totals(store) ==
  LET usage == ActiveKeys(store, store.daily_usage)
      activity == ActiveKeys(store, store.daily_activity)
      dates == {k[2] : k \in usage}
  IN [total_tokens |-> Sum(store.daily_usage, usage, "input_tokens")
                         + Sum(store.daily_usage, usage, "output_tokens")
                         + Sum(store.daily_usage, usage, "cache_read_tokens")
                         + Sum(store.daily_usage, usage, "cache_creation_tokens"),
      total_messages |-> Sum(store.daily_activity, activity, "message_count"),
      total_sessions |-> Sum(store.daily_activity, activity, "session_count"),
      machine_count |->
        Cardinality({h \in DOMAIN store.machines : store.machines[h].is_active = 1}),
      first_activity |->
        IF dates = {} THEN <<>> ELSE <<CHOOSE d \in dates : \A e \in dates : d <= e>>,
      last_activity |->
        IF dates = {} THEN <<>> ELSE <<CHOOSE d \in dates : \A e \in dates : d >= e>>]

\* ------------------------------------------------------------------------
\* db.py: machine management
\* ------------------------------------------------------------------------
\* a table without the rows of a hostname
Without(table, hostname) ==
  [k \in {x \in DOMAIN table : x[1] # hostname} |-> table[k]]

\* DELETE FROM machines WHERE hostname = ? leaving the rows that point to it
DeleteMachineRow_NoCascade(store, hostname) ==
  [store EXCEPT !.machines = [h \in DOMAIN store.machines \ {hostname} |-> @[h]]]

\* DELETE FROM machines WHERE hostname = ? under PRAGMA foreign_keys = ON:
\* the rows whose FOREIGN KEY names the hostname go with it (ON DELETE
\* CASCADE)
DeleteMachineRow(store, hostname) ==
  [machines |-> [h \in DOMAIN store.machines \ {hostname} |-> store.machines[h]],
   daily_activity |-> Without(store.daily_activity, hostname),
   daily_usage |-> Without(store.daily_usage, hostname),
   model_usage |-> Without(store.model_usage, hostname)]

\* the flag kept in the rows instead: the message counts of an inactive
\* machine stored with the opposite sign
SetActive_InRows(store, hostname, flag) ==
  [store EXCEPT
     !.machines[hostname].is_active = flag,
     !.daily_activity =
       [k \in DOMAIN @ |->
          IF k[1] = hostname /\ flag = 0
            THEN [@[k] EXCEPT !.message_count = 0 - @]
            ELSE @[k]]]

\* UPDATE machines SET is_active = flag WHERE hostname = ?
SetActive(store, hostname, flag) ==
  [store EXCEPT !.machines[hostname].is_active = flag]

\* delete_machine: the store it leaves and whether a row was found
delete_machine(store, hostname, hard) ==
  IF hostname \notin DOMAIN store.machines
    THEN [db |-> store, found |-> FALSE]
    ELSE [db |-> IF hard THEN DeleteMachineRow(store, hostname)
                 ELSE SetActive(store, hostname, 0),
          found |-> TRUE]

\* reactivate_machine leaving the flag as it is
reactivate_machine_Noop(store, hostname) ==
  [db |-> store, found |-> hostname \in DOMAIN store.machines]

\* reactivate_machine
reactivate_machine(store, hostname) ==
  IF hostname \notin DOMAIN store.machines
    THEN [db |-> store, found |-> FALSE]
    ELSE [db |-> SetActive(store, hostname, 1), found |-> TRUE]

\* ------------------------------------------------------------------------
\* auth.py: the API key and the rate limit
\* ------------------------------------------------------------------------
RATE_LIMIT == 60
\* the window of the rate limit, in seconds
WINDOW == 60

\* what a request may carry as X-API-Key: no header, the key the server
\* expects, another key, and a key with a character outside ASCII (an e
\* with an acute accent, written out here)
NoHeader == None
NonAsciiKey == "key-with-e-acute"
ApiKeys == {"secret", "wrong-key", NonAsciiKey}
Credentials == {NoHeader} \cup ApiKeys
IsAscii(key) == key # NonAsciiKey

\* os.environ, with and without FORGE_API_KEY
Unset == None
Environs == {[FORGE_API_KEY |-> Unset], [FORGE_API_KEY |-> "secret"]}

\* the addresses requests come from
Addresses == {"10.0.0.1", "10.0.0.2"}

\* request_counts when the process starts
NoCounts == [ip \in {} |-> <<>>]

\* secrets.compare_digest on two str: TypeError unless both are ASCII
compare_digest(a, b) ==
  IF IsAscii(a) /\ IsAscii(b)
    THEN [raised |-> FALSE, equal |-> a = b]
    ELSE [raised |-> TRUE, equal |-> FALSE]

\* [t for t in request_counts[client_ip] if now - t < 60]
RECURSIVE Recent(_, _)
Recent(times, now) ==
  IF times = <<>> THEN <<>>
  ELSE IF now - Head(times) < WINDOW
         THEN <<Head(times)>> \o Recent(Tail(times), now)
         ELSE Recent(Tail(times), now)

Answer(status, counts) == [status |-> status, request_counts |-> counts]

\* len(request_counts[client_ip]) > RATE_LIMIT
AtLimit_Above(n) == n > RATE_LIMIT

\* len(request_counts[client_ip]) >= RATE_LIMIT
AtLimit(n) == n >= RATE_LIMIT

\* the rate limiting of verify_api_key
RateLimit(counts, client_ip, now) ==
  LET listed == IF client_ip \in DOMAIN counts THEN counts[client_ip] ELSE <<>>
      recent == Recent(listed, now)
      Set(times) == [ip \in DOMAIN counts \cup {client_ip} |->
                       IF ip = client_ip THEN times ELSE counts[ip]]
  IN IF AtLimit(Len(recent))
       THEN Answer(429, Set(recent))
       ELSE Answer(200, Set(Append(recent, now)))

\* verify_api_key on a request that has the header: the status it raises
\* (200 when it returns) and request_counts after it; an exception that is
\* no HTTPException is answered 500
verify_api_key(env, counts, client_ip, api_key, now) ==
  LET expected == env.FORGE_API_KEY
  IN IF expected = Unset THEN Answer(500, counts)
     ELSE IF compare_digest(api_key, expected).raised THEN Answer(500, counts)
     ELSE IF ~compare_digest(api_key, expected).equal THEN Answer(401, counts)
     ELSE RateLimit(counts, client_ip, now)

\* ------------------------------------------------------------------------
\* routers/sync.py: POST /v1/sync
\* ------------------------------------------------------------------------
Response(status, count, registered) ==
  [status |-> status, records_upserted |-> count, machine_registered |-> registered]

\* the endpoint on a request body: 422 when the body fails validation (the
\* handler is not entered), 500 when sync_usage raises, else SyncResponse
sync(store, request, now) ==
  IF ~ValidSyncRequest(request, now)
    THEN [db |-> store, response |-> Response(422, None, None)]
    ELSE LET r == sync_usage(store, request, now)
         IN IF r.raised
              THEN [db |-> r.db, response |-> Response(500, None, None)]
              ELSE [db |-> r.db, response |-> Response(200, r.count, r.registered)]

\* ------------------------------------------------------------------------
\* Client: values
\* ------------------------------------------------------------------------
MAX_PENDING_SYNCS == 100
\* timedelta(hours=1): the client's clock counts hours
ONE_HOUR == 1

\* client calls in one behaviour
MaxClientCalls == 2
\* enqueue and drain calls in one behaviour of the queue with its drain
MaxDrainCalls == 5
\* ticks the client's clock may advance
MaxClock == 2
\* times the local usage data may change
MaxSource == 1
\* a drain of a queue longer than this gets one outcome for all its items
MaxFreeLen == 3
\* calendar days that pass in one behaviour of the snapshot store
MaxSnapshotDays == 2
\* the widest window asked of compute_daily_deltas
MaxWindow == 2
\* enqueue calls in one behaviour of the queue alone, and forced syncs in
\* one behaviour of the client during an outage
MaxEnqueues == 110
\* forced syncs in one behaviour of the client with a failing transport
MaxAttempts == 3
\* enqueue and drain calls begun in one behaviour of the client's processes
MaxProcCalls == 4
\* calls in one behaviour of the client whose queue is accounted for
MaxLedgerCalls == 2
\* sync attempts made during the outage in one behaviour of the client and
\* the server together
MaxOutageCalls == 3

\* datetime.isoformat() of a clock value, and its parse: a timestamp string
\* is a one-element tuple, so that None (the empty tuple) is none of them
NoTime == <<>>
isoformat(t) == <<t>>
parse_datetime(s) == s[1]

\* a file on disk: missing, or holding a document
MissingFile == [state |-> "missing", data |-> <<>>]

\* what the transport does with one POST: it raises httpx.RequestError
\* (connection refused, timeout) or returns a response with a status code
RequestError(reason) ==
  [kind |-> "request_error", reason |-> reason, status |-> 0, records_upserted |-> 0]
HttpResponse(status, n) ==
  [kind |-> "response", reason |-> None, status |-> status, records_upserted |-> n]

TransportOutcomes ==
  {RequestError("connect"), RequestError("timeout"), HttpResponse(200, 2),
   HttpResponse(401, 0), HttpResponse(429, 0)}

DrainOutcomes ==
  {RequestError("connect"), HttpResponse(200, 2), HttpResponse(422, 0)}

\* except httpx.ConnectError, which a timeout is not
IsRequestError_ConnectOnly(o) == o.kind = "request_error" /\ o.reason = "connect"

\* except httpx.RequestError: connection failures and timeouts alike
IsRequestError(o) == o.kind = "request_error"

\* response.raise_for_status() raises HTTPStatusError
IsHTTPStatusError(o) == o.kind = "response" /\ ~(o.status >= 200 /\ o.status < 300)

Delivered(o) == ~IsRequestError(o) /\ ~IsHTTPStatusError(o)

\* ------------------------------------------------------------------------
\* config.py
\* ------------------------------------------------------------------------
DEFAULT_CONFIG ==
  [server_url |-> None, api_key |-> None, hostname |-> None,
   last_sync |-> NoTime, last_sync_success |-> TRUE, last_error |-> None]

\* load_config: the defaults, updated with what the file stores
load_config(file) == IF file.state = "ok" THEN file.data ELSE DEFAULT_CONFIG

save_config(config) == [state |-> "ok", data |-> config]

\* ------------------------------------------------------------------------
\* local_cache.py: the pending queue
\* ------------------------------------------------------------------------
\* _load_json(path) or []
LoadList(file) == IF file.state = "ok" THEN file.data ELSE <<>>

_save_json(data) == [state |-> "ok", data |-> data]

\* queue_sync letting the queue grow one past the capacity
queue_sync_OffByOne(file, payload, now) ==
  LET pending == LoadList(file)
      kept == IF Len(pending) > MAX_PENDING_SYNCS THEN Tail(pending) ELSE pending
  IN _save_json(Append(kept, [payload |-> payload, queued_at |-> isoformat(now)]))

queue_sync(file, payload, now) ==
  LET pending == LoadList(file)
      kept == IF Len(pending) >= MAX_PENDING_SYNCS THEN Tail(pending) ELSE pending
  IN _save_json(Append(kept, [payload |-> payload, queued_at |-> isoformat(now)]))

get_pending_count(file) == Len(LoadList(file))

list_pending(file) == LoadList(file)

\* the loop of process_pending_syncs keeping only the items whose POST met a
\* transport failure: an item the server rejected is dropped
Remaining_Unreachable(pending, outcomes) ==
  LET attempts == [i \in 1 .. Len(pending) |->
                     [item |-> pending[i], outcome |-> outcomes[i]]]
      Failed(a) == a.outcome.kind = "request_error"
      kept == SelectSeq(attempts, Failed)
  IN [i \in 1 .. Len(kept) |-> kept[i].item]

\* the loop of process_pending_syncs: the items whose POST raised, in the
\* order of the queue; outcomes[i] is what the transport did with item i
Remaining(pending, outcomes) ==
  LET attempts == [i \in 1 .. Len(pending) |->
                     [item |-> pending[i], outcome |-> outcomes[i]]]
      Raised(a) == ~Delivered(a.outcome)
      kept == SelectSeq(attempts, Raised)
  IN [i \in 1 .. Len(kept) |-> kept[i].item]

\* the POSTs of one drain: each item's payload and what the transport did
Posts(pending, outcomes) ==
  [i \in 1 .. Len(pending) |-> [payload |-> pending[i].payload, outcome |-> outcomes[i]]]

\* process_pending_syncs keeping the items it delivered
process_pending_syncs_KeepAll(file, outcomes) ==
  LET pending == LoadList(file)
  IN IF pending = <<>>
       THEN [file |-> file, success |-> 0, failed |-> 0, posts |-> <<>>]
       ELSE [file |-> _save_json(pending),
             success |-> Cardinality({i \in 1 .. Len(pending) : Delivered(outcomes[i])}),
             failed |-> Len(pending),
             posts |-> Posts(pending, outcomes)]

\* process_pending_syncs: the queue file it leaves, the pair it returns and
\* the POSTs it made, in order; outcomes[i] is what the transport did with
\* item i
process_pending_syncs(file, outcomes) ==
  LET pending == LoadList(file)
  IN IF pending = <<>>
       THEN [file |-> file, success |-> 0, failed |-> 0, posts |-> <<>>]
       ELSE LET remaining == Remaining(pending, outcomes)
            IN [file |-> _save_json(remaining),
                success |-> Cardinality({i \in 1 .. Len(pending) : Delivered(outcomes[i])}),
                failed |-> Len(remaining),
                posts |-> Posts(pending, outcomes)]

\* ------------------------------------------------------------------------
\* local_cache.py: usage snapshots and daily deltas
\* ------------------------------------------------------------------------
\* _load_json(USAGE_SNAPSHOTS) or {}: the snapshots keyed by date
get_usage_snapshots(file) == IF file.state = "ok" THEN file.data ELSE <<>>

\* save_usage_snapshot keeping the snapshot a day already has
save_usage_snapshot_KeepFirst(file, model_usage, day, now) ==
  IF model_usage = <<>> \/ day \in DOMAIN get_usage_snapshots(file)
    THEN file
    ELSE _save_json([d \in DOMAIN get_usage_snapshots(file) \cup {day} |->
                       IF d = day
                         THEN [model_usage |-> model_usage, captured_at |-> isoformat(now)]
                         ELSE get_usage_snapshots(file)[d]])

\* save_usage_snapshot on calendar day `day`, at clock value `now`
save_usage_snapshot(file, model_usage, day, now) ==
  IF model_usage = <<>>
    THEN file
    ELSE LET snapshots == get_usage_snapshots(file)
         IN _save_json([d \in DOMAIN snapshots \cup {day} |->
                          IF d = day
                            THEN [model_usage |-> model_usage, captured_at |-> isoformat(now)]
                            ELSE snapshots[d]])

\* {u["model"]: u for u in model_usage}: the last entry of a model wins
ByModel(model_usage) ==
  LET names == {model_usage[i].model : i \in 1 .. Len(model_usage)}
  IN [m \in names |->
        model_usage[CHOOSE i \in 1 .. Len(model_usage) :
                      /\ model_usage[i].model = m
                      /\ \A j \in 1 .. Len(model_usage) : model_usage[j].model = m => j <= i]]

\* usage.get(model, {}).get(field, 0)
Counter(usage, model, field) ==
  IF model \in DOMAIN usage /\ field \in DOMAIN usage[model] THEN usage[model][field] ELSE 0

\* a counter difference taken as it is, negative when the counter went down
Clamp_Signed(x) == x

\* max(0, x)
Clamp(x) == IF x > 0 THEN x ELSE 0

\* the loop over all_models: the clamped differences of one counter, summed
RECURSIVE DaySum(_, _, _, _)
DaySum(models, prev_usage, curr_usage, field) ==
  IF models = {}
    THEN 0
    ELSE LET model == CHOOSE m \in models : TRUE
         IN Clamp(Counter(curr_usage, model, field) - Counter(prev_usage, model, field))
              + DaySum(models \ {model}, prev_usage, curr_usage, field)

\* the record appended for the pair (prev_date, curr_date)
DayDelta(snapshots, prev_date, curr_date) ==
  LET prev_usage == ByModel(snapshots[prev_date].model_usage)
      curr_usage == ByModel(snapshots[curr_date].model_usage)
      all_models == DOMAIN prev_usage \cup DOMAIN curr_usage
      sum == [f \in TokenFields |-> DaySum(all_models, prev_usage, curr_usage, f)]
  IN [date |-> curr_date,
      total_tokens |-> sum.input_tokens + sum.output_tokens
                         + sum.cache_read_tokens + sum.cache_creation_tokens,
      input_tokens |-> sum.input_tokens,
      output_tokens |-> sum.output_tokens,
      cache_read_tokens |-> sum.cache_read_tokens,
      cache_creation_tokens |-> sum.cache_creation_tokens]

\* the dates kept by the filter, with the cutoff date itself left out
InRange_AfterCutoff(dates, day, days) == {d \in dates : d > day - days}

\* the dates kept by the filter d >= cutoff
InRange(dates, day, days) == {d \in dates : d >= day - days}

\* compute_daily_deltas(days) on calendar day `day`
compute_daily_deltas(file, day, days) ==
  LET snapshots == get_usage_snapshots(file)
  IN IF Cardinality(DOMAIN snapshots) < 2
       THEN <<>>
       ELSE LET sorted_dates == Sorted(InRange(DOMAIN snapshots, day, days))
            IN [i \in 1 .. Len(sorted_dates) - 1 |->
                  DayDelta(snapshots, sorted_dates[i], sorted_dates[i + 1])]

\* ------------------------------------------------------------------------
\* local_cache.py and config.py: reading a file that may be damaged
\* ------------------------------------------------------------------------
\* what a file may be besides missing or holding its document: cut off in
\* the middle of the JSON text, refused by the operating system on reading,
\* or holding bytes that are no text in the encoding read_text uses
FileStates == {"missing", "ok", "truncated", "unreadable", "undecodable"}

\* path.read_text(): the exception it raises, if any. Bytes that are not
\* UTF-8 raise UnicodeDecodeError where the preferred encoding is UTF-8;
\* with a one-byte encoding every byte decodes
read_text(file, utf8) ==
  CASE file.state = "unreadable" -> "IOError"
    [] file.state = "undecodable" /\ utf8 -> "UnicodeDecodeError"
    [] OTHER -> None

\* json.loads on the text read: the exception it raises, if any
json_loads(file) ==
  IF file.state \in {"truncated", "undecodable"} THEN "JSONDecodeError" ELSE None

\* try: json.loads(path.read_text()) except (json.JSONDecodeError, IOError):
\* the exception that gets out, if any
Escapes(file, utf8) ==
  LET raised == IF read_text(file, utf8) # None THEN read_text(file, utf8)
                ELSE json_loads(file)
  IN /\ file.state # "missing"
     /\ raised \notin {None, "JSONDecodeError", "IOError"}

\* the result of a read: what it returns, unless it raises
Returned(value) == [raised |-> FALSE, value |-> value]
Raised == [raised |-> TRUE, value |-> None]

\* the reads of the pending queue, the snapshots and the configuration
LocalReads ==
  {"get_pending_count", "list_pending", "process_pending_syncs",
   "compute_daily_deltas", "load_config"}

\* the file an operation reads
FileOf(op, pfile, sfile, cfile) ==
  CASE op = "compute_daily_deltas" -> sfile
    [] op = "load_config" -> cfile
    [] OTHER -> pfile

\* one read: the result, with the transport delivering every queued item
\* of a drain
LocalRead(op, pfile, sfile, cfile, day, utf8) ==
  IF Escapes(FileOf(op, pfile, sfile, cfile), utf8) THEN Raised
  ELSE CASE op = "get_pending_count" -> Returned(get_pending_count(pfile))
         [] op = "list_pending" -> Returned(list_pending(pfile))
         [] op = "process_pending_syncs" ->
              LET d == process_pending_syncs(
                         pfile, [i \in 1 .. Len(LoadList(pfile)) |-> HttpResponse(200, 2)])
              IN Returned(<<d.success, d.failed>>)
         [] op = "compute_daily_deltas" -> Returned(compute_daily_deltas(sfile, day, 30))
         [] op = "load_config" -> Returned(load_config(cfile))

\* ------------------------------------------------------------------------
\* sync.py: the orchestrator
\* ------------------------------------------------------------------------
SyncResult(status, message, n) ==
  [status |-> status, message |-> message, records_synced |-> n]

\* what one client call leaves behind: the two files, its result, what the
\* drain step did (the queue file it left, the pair it returned) and the
\* POSTs made in all, in order, each with what the transport did
Outcome(pfile, cfile, result, d, posts) ==
  [pending_file |-> pfile, config_file |-> cfile, result |-> result,
   drained |-> d.file, drain_success |-> d.success, drain_failed |-> d.failed,
   posts |-> posts]

\* no drain step ran
NoDrain(pfile) == [file |-> pfile, success |-> 0, failed |-> 0, posts |-> <<>>]

\* the except httpx.RequestError branch of do_sync leaving the configuration
\* as it was
ExceptRequestError_KeepConfig(config, cfile, d, now, main, rebuilt, posts) ==
  Outcome(queue_sync(d.file, rebuilt, now), cfile,
          SyncResult("queued", <<"Server unreachable", main.reason>>, 0), d, posts)

\* the except httpx.RequestError branch of do_sync: the payload is built
\* again and queued, the failure is recorded in the configuration
ExceptRequestError(config, cfile, d, now, main, rebuilt, posts) ==
  Outcome(queue_sync(d.file, rebuilt, now),
          save_config([config EXCEPT !.last_sync = isoformat(now),
                                     !.last_sync_success = FALSE,
                                     !.last_error = main.reason]),
          SyncResult("queued", <<"Server unreachable", main.reason>>, 0), d, posts)

\* the except httpx.HTTPStatusError branch of do_sync queueing the payload
ExceptHTTPStatusError_Queued(cfile, d, now, main, payload, posts) ==
  Outcome(queue_sync(d.file, payload, now), cfile,
          SyncResult("error", <<"Server error", main.status>>, 0), d, posts)

\* the except httpx.HTTPStatusError branch of do_sync: nothing is written
ExceptHTTPStatusError(cfile, d, now, main, payload, posts) ==
  Outcome(d.file, cfile, SyncResult("error", <<"Server error", main.status>>, 0), d, posts)

\* the end of the try block of do_sync keeping the recorded error
Succeeded_KeepError(config, d, now, main, posts) ==
  Outcome(d.file,
          save_config([config EXCEPT !.last_sync = isoformat(now),
                                     !.last_sync_success = TRUE]),
          SyncResult("success", <<>>, main.records_upserted), d, posts)

\* the end of the try block of do_sync, after raise_for_status passed: the
\* sync is recorded in the configuration
Succeeded(config, d, now, main, posts) ==
  Outcome(d.file,
          save_config([config EXCEPT !.last_sync = isoformat(now),
                                     !.last_sync_success = TRUE,
                                     !.last_error = None]),
          SyncResult("success", <<>>, main.records_upserted), d, posts)

\* do_sync giving up when an item of the queue could not be delivered
do_sync_StopAfterFailedDrain(config, pfile, cfile, now, outcomes, main, payload, rebuilt) ==
  LET d == process_pending_syncs(pfile, outcomes)
      posts == Append(d.posts, [payload |-> payload, outcome |-> main])
  IN IF d.failed > 0
       THEN Outcome(d.file, cfile, SyncResult("error", <<"Pending syncs failed">>, 0),
                    d, d.posts)
       ELSE IF IsRequestError(main)
         THEN ExceptRequestError(config, cfile, d, now, main, rebuilt, posts)
         ELSE IF IsHTTPStatusError(main)
           THEN ExceptHTTPStatusError(cfile, d, now, main, payload, posts)
           ELSE Succeeded(config, d, now, main, posts)

\* do_sync. outcomes: what the transport does with each queued item; main:
\* what it does with the new submission; payload: what build_sync_payload
\* returns before the POST; rebuilt: what it returns in the except branch
do_sync(config, pfile, cfile, now, outcomes, main, payload, rebuilt) ==
  LET d == process_pending_syncs(pfile, outcomes)
      posts == Append(d.posts, [payload |-> payload, outcome |-> main])
  IN IF IsRequestError(main)
       THEN ExceptRequestError(config, cfile, d, now, main, rebuilt, posts)
       ELSE IF IsHTTPStatusError(main)
         THEN ExceptHTTPStatusError(cfile, d, now, main, payload, posts)
         ELSE Succeeded(config, d, now, main, posts)

\* should_sync with the hour itself counted as elapsed
should_sync_AtTheHour(force, last_sync, now) ==
  \/ force
  \/ last_sync = NoTime
  \/ now - parse_datetime(last_sync) >= ONE_HOUR

\* should_sync in maybe_auto_sync
should_sync(force, last_sync, now) ==
  \/ force
  \/ last_sync = NoTime
  \/ now - parse_datetime(last_sync) > ONE_HOUR

maybe_auto_sync(force, pfile, cfile, now, outcomes, main, payload, rebuilt) ==
  LET config == load_config(cfile)
  IN IF config.server_url = None
       THEN Outcome(pfile, cfile, SyncResult("skipped", <<"Server not configured">>, 0),
                    NoDrain(pfile), <<>>)
       ELSE IF config.api_key = None
         THEN Outcome(pfile, cfile, SyncResult("skipped", <<"API key not configured">>, 0),
                      NoDrain(pfile), <<>>)
         ELSE IF ~should_sync(force, config.last_sync, now)
           THEN Outcome(pfile, cfile, SyncResult("skipped", <<"Recently synced">>, 0),
                        NoDrain(pfile), <<>>)
           ELSE do_sync(config, pfile, cfile, now, outcomes, main, payload, rebuilt)

\* ------------------------------------------------------------------------
\* State
\* ------------------------------------------------------------------------
VARIABLES
  db,            \* server: the store
  today,         \* server: the clock, in days
  ncalls,        \* server: requests served so far
  last,          \* server: the last request served: what it was, when, the
                 \* store before it and the response
  environ,       \* server: os.environ
  request_counts,\* server: auth.request_counts
  seconds,       \* server: time.time()
  pending_file,  \* client: pending_syncs.json
  config_file,   \* client: config.json
  clock,         \* client: the clock, in ticks
  source,        \* client: what build_sync_payload returns now
  nclient,       \* client: calls made so far
  call,          \* client: the last call: what it was, the files before it,
                 \* what the transport did and what the call left behind;
                 \* with it, when the last sync that succeeded was made
  snapshots_file,\* client: usage_snapshots.json
  client_day,    \* client: the calendar date of the clock
  deltas         \* client: the last compute_daily_deltas call: when it was
                 \* made, its argument, the snapshots it read and what it
                 \* returned

auth_vars == <<environ, request_counts, seconds>>
server_vars == <<db, today, ncalls, last, environ, request_counts, seconds>>
snapshot_vars == <<snapshots_file, client_day, deltas>>
client_vars ==
  <<pending_file, config_file, clock, source, nclient, call,
    snapshots_file, client_day, deltas>>
vars ==
  <<db, today, ncalls, last, environ, request_counts, seconds, pending_file, config_file, clock, source, nclient, call,
    snapshots_file, client_day, deltas>>

NoRequest ==
  [protocol_version |-> PROTOCOL_VERSION, hostname |-> "", daily_activity |-> <<>>,
   daily_usage |-> <<>>, model_usage |-> <<>>]

\* the process just started, with its API key configured
Started ==
  /\ environ = [FORGE_API_KEY |-> "secret"]
  /\ request_counts = NoCounts
  /\ seconds = 0

ServerInit ==
  /\ Started
  /\ db = EmptyDb
  /\ today = StartDay
  /\ ncalls = 0
  /\ last = [op |-> "none", request |-> NoRequest, at |-> StartDay,
             before |-> EmptyDb, response |-> Response(0, None, None)]

NoCall ==
  [op |-> "none", force |-> FALSE, at |-> 0, last_success |-> NoTime,
   pending_before |-> MissingFile, config_before |-> MissingFile,
   out |-> Outcome(MissingFile, MissingFile, SyncResult("none", <<>>, 0),
                   NoDrain(MissingFile), <<>>)]

NoDeltas == [at |-> 0, days |-> 0, snapshots |-> <<>>, result |-> <<>>]

\* no snapshot saved yet
NoSnapshots ==
  /\ snapshots_file = MissingFile
  /\ client_day = 1
  /\ deltas = NoDeltas

\* a client just installed: no file written yet
FreshClient ==
  /\ pending_file = MissingFile
  /\ config_file = MissingFile
  /\ clock = 0
  /\ source = 1
  /\ nclient = 0
  /\ call = NoCall
  /\ NoSnapshots

\* ------------------------------------------------------------------------
\* The server as a state machine
\* ------------------------------------------------------------------------
Init == ServerInit /\ FreshClient

PostSync(request) ==
  /\ ncalls < MaxCalls
  /\ LET r == sync(db, request, today)
     IN /\ db' = r.db
        /\ last' = [op |-> "sync", request |-> request, at |-> today,
                    before |-> db, response |-> r.response]
  /\ ncalls' = ncalls + 1
  /\ UNCHANGED today
  /\ UNCHANGED auth_vars
  /\ UNCHANGED client_vars

Tick ==
  /\ today < StartDay + MaxDays
  /\ today' = today + 1
  /\ UNCHANGED <<db, ncalls, last>>
  /\ UNCHANGED auth_vars
  /\ UNCHANGED client_vars

Next ==
  \/ \E request \in SyncRequests : PostSync(request)
  \/ Tick

Spec == Init /\ [][Next]_vars

\* ------------------------------------------------------------------------
\* The server on a database file that holds rows. DATABASE_PATH names a file
\* that outlives the process and init_db creates only what is missing, so
\* the server starts on whatever the file holds. The rows are the ones the
\* statements of sync_usage write, with the flag as delete_machine and
\* reactivate_machine leave it.
\* ------------------------------------------------------------------------
\* the hostnames of the file's rows: one of them has a comma in it (the
\* hostname field takes any string of 1 to 255 characters)
StoredHostnames == Hostnames \cup {"a,b"}

\* what a machine's rows can be: none, one day of everything, or usage on
\* three dates (one of them long ago) with activity on one date only
Bare == [daily_activity |-> <<>>, daily_usage |-> <<>>, model_usage |-> <<>>]

OneDay ==
  [daily_activity |-> <<ActivityRecord(StartDay, <<10, 1, 5>>)>>,
   daily_usage |-> <<UsageRecord(StartDay, <<400, 600, 0, 0>>)>>,
   model_usage |-> <<ModelRecord("opus", <<500, 100, 7, 3>>)>>]

ThreeDates ==
  [daily_activity |-> <<ActivityRecord(StartDay, <<4, 2, 0>>)>>,
   daily_usage |-> <<UsageRecord(StartDay - 40, <<400, 600, 0, 0>>),
                     UsageRecord(StartDay - 1, <<400, 600, 0, 0>>),
                     UsageRecord(StartDay, <<1, 2, 3, 4>>)>>,
   model_usage |-> <<ModelRecord("opus", <<100, 100, 0, 0>>),
                     ModelRecord("sonnet", <<500, 100, 7, 3>>)>>]

Holdings == {Bare, OneDay, ThreeDates}

\* per hostname: no machine row, or a holding and the flag
Slots == {<<>>} \cup {<<h, a>> : h \in Holdings, a \in {0, 1}}

\* the store with the rows of one more machine
Stored(store, hostname, slot) ==
  IF slot = <<>> THEN store
  ELSE LET holding == slot[1]
           machines == UpsertMachine(store.machines, hostname, StartDay)
       IN [machines |-> [machines EXCEPT ![hostname].is_active = slot[2]],
           daily_activity |->
             ActivityLoop(store.daily_activity, hostname, holding.daily_activity, 1, StartDay),
           daily_usage |->
             UsageLoop(store.daily_usage, hostname, holding.daily_usage, 1, StartDay),
           model_usage |->
             ModelLoop(store.model_usage, hostname, holding.model_usage, 1, StartDay)]

StoredFiles ==
  {Stored(Stored(Stored(EmptyDb, "h1", s1), "h2", s2), "a,b", s3) :
     s1 \in Slots, s2 \in Slots,
     s3 \in {<<>>, <<OneDay, 1>>}}

NoOp == [op |-> "none", request |-> <<>>, before |-> EmptyDb]

StoreInit ==
  /\ Started
  /\ db \in StoredFiles
  /\ today = StartDay
  /\ ncalls = 0
  /\ last = [op |-> "none", request |-> <<>>, at |-> StartDay, before |-> EmptyDb,
             response |-> [status |-> 0], prev |-> NoOp]
  /\ FreshClient

\* what `last` keeps of the request before
Prev == [op |-> last.op, request |-> last.request, before |-> last.before]

\* DELETE /v1/machines/{hostname}?hard=...
RemoveMachine(hostname, hard) ==
  /\ LET r == delete_machine(db, hostname, hard)
     IN /\ db' = r.db
        /\ last' = [op |-> "delete", request |-> [hostname |-> hostname, hard |-> hard],
                    at |-> today, before |-> db,
                    response |-> [status |-> IF r.found THEN 200 ELSE 404],
                    prev |-> Prev]
  /\ UNCHANGED <<today, ncalls>>
  /\ UNCHANGED auth_vars
  /\ UNCHANGED client_vars

\* POST /v1/machines/{hostname}/reactivate
Reactivate(hostname) ==
  /\ LET r == reactivate_machine(db, hostname)
     IN /\ db' = r.db
        /\ last' = [op |-> "reactivate", request |-> [hostname |-> hostname],
                    at |-> today, before |-> db,
                    response |-> [status |-> IF r.found THEN 200 ELSE 404],
                    prev |-> Prev]
  /\ UNCHANGED <<today, ncalls>>
  /\ UNCHANGED auth_vars
  /\ UNCHANGED client_vars

\* GET /v1/stats/daily?days=...
DailyStats(days) ==
  /\ last' = [op |-> "daily", request |-> [days |-> days], at |-> today, before |-> db,
              response |-> [status |-> 200, days |-> get_daily_stats(db, today, days)],
              prev |-> Prev]
  /\ UNCHANGED <<db, today, ncalls>>
  /\ UNCHANGED auth_vars
  /\ UNCHANGED client_vars

StoreNext ==
  \/ \E hostname \in StoredHostnames, hard \in BOOLEAN : RemoveMachine(hostname, hard)
  \/ \E hostname \in StoredHostnames : Reactivate(hostname)
  \/ \E days \in 1 .. MaxStatsDays : DailyStats(days)

SpecStore == StoreInit /\ [][StoreNext]_vars

\* ------------------------------------------------------------------------
\* The server on a database file that holds rows, with syncs among the
\* requests: well-formed ones and ones with one field out of policy
\* ------------------------------------------------------------------------
SyncOf(hostname, activity, usage, models) ==
  [protocol_version |-> PROTOCOL_VERSION, hostname |-> hostname,
   daily_activity |-> activity, daily_usage |-> usage, model_usage |-> models]

\* n copies of a record
Repeat(record, n) == [i \in 1 .. n |-> record]

WellFormed ==
  {SyncOf("h1", <<>>, <<>>, <<>>),
   SyncOf("h1", <<ActivityRecord(StartDay, <<4, 2, 0>>)>>,
          <<UsageRecord(StartDay, <<1, 2, 3, 4>>)>>,
          <<ModelRecord("sonnet", <<500, 100, 7, 3>>)>>),
   SyncOf("h2", <<>>, <<UsageRecord(StartDay, <<400, 600, 0, 0>>)>>,
          <<ModelRecord("opus", <<100, 100, 0, 0>>)>>),
   SyncOf("h1", <<>>, <<>>, <<ModelRecord("opus", <<100, 50, 0, 0>>)>>),
   SyncOf(FullHostname, <<>>, <<>>, <<>>)}

OutOfPolicy ==
  {[SyncOf("h1", <<>>, <<>>, <<>>) EXCEPT !.protocol_version = v] :
     v \in {0, PROTOCOL_VERSION + 1}}
  \cup {SyncOf(h, <<>>, <<UsageRecord(StartDay, <<1, 2, 3, 4>>)>>, <<>>) :
          h \in {"", LongHostname}}
  \cup {SyncOf("h1", Repeat(ActivityRecord(StartDay, <<10, 1, 5>>), MAX_SYNC_DAYS + 1),
               <<>>, <<>>),
        SyncOf("h1", <<>>, Repeat(UsageRecord(StartDay, <<1, 2, 3, 4>>), MAX_SYNC_DAYS + 1),
               <<>>),
        SyncOf("h1", <<>>, <<>>, <<ModelRecord("", <<500, 100, 7, 3>>)>>),
        SyncOf("h1", <<ActivityRecord(StartDay, <<10, 0 - 1, 5>>)>>, <<>>, <<>>),
        SyncOf("h1", <<>>, <<UsageRecord(StartDay, <<1, 2, 0 - 3, 4>>)>>, <<>>),
        SyncOf("h1", <<ActivityRecord(StartDay, <<4, 2, 0>>)>>, <<>>,
               <<ModelRecord("opus", <<500, 100, 7, 0 - 3>>)>>)}

OpsFiles ==
  {Stored(Stored(EmptyDb, "h1", s1), "h2", s2) :
     s1 \in {<<>>, <<OneDay, 1>>, <<OneDay, 0>>}, s2 \in {<<>>, <<ThreeDates, 1>>}}

OpsInit ==
  /\ Started
  /\ db \in OpsFiles
  /\ today = StartDay
  /\ ncalls = 0
  /\ last = [op |-> "none", request |-> <<>>, at |-> StartDay, before |-> EmptyDb,
             response |-> [status |-> 0], prev |-> NoOp]
  /\ FreshClient

OpsNext ==
  \/ \E request \in WellFormed \cup OutOfPolicy : PostSync(request)
  \/ \E hostname \in Hostnames, hard \in BOOLEAN : RemoveMachine(hostname, hard)
  \/ \E hostname \in Hostnames : Reactivate(hostname)

SpecOps == OpsInit /\ [][OpsNext]_vars

\* ------------------------------------------------------------------------
\* The server behind verify_api_key: main.py includes the sync, stats and
\* machines routers with dependencies=[Depends(verify_api_key)], so the
\* handler of a request runs only when verify_api_key returns.
\* ------------------------------------------------------------------------
\* the requests made, one of each router: a sync of h1 with empty lists, a
\* daily stats query and a soft delete of h1
Endpoints == {"sync", "daily", "delete"}

EmptySync ==
  [protocol_version |-> PROTOCOL_VERSION, hostname |-> "h1", daily_activity |-> <<>>,
   daily_usage |-> <<>>, model_usage |-> <<>>]

\* the handler of the endpoint: the store it leaves and the status
Handle(store, endpoint, now) ==
  CASE endpoint = "sync" ->
         LET r == sync(store, EmptySync, now)
         IN [db |-> r.db, status |-> r.response.status]
    [] endpoint = "daily" -> [db |-> store, status |-> 200]
    [] endpoint = "delete" ->
         LET r == delete_machine(store, "h1", FALSE)
         IN [db |-> r.db, status |-> IF r.found THEN 200 ELSE 404]

\* the one address that sends without bound; of any other address one
\* request at most gets as far as the rate limit
Busy == "10.0.0.1"

AuthInit ==
  /\ environ \in Environs
  /\ request_counts = NoCounts
  /\ seconds = 0
  /\ db = Stored(EmptyDb, "h1", <<OneDay, 1>>)
  /\ today = StartDay
  /\ ncalls = 0
  /\ last = [op |-> "none", request |-> <<>>, at |-> 0, before |-> EmptyDb,
             response |-> [status |-> 0]]
  /\ FreshClient

\* a request without the X-API-Key header: APIKeyHeader answers it before
\* verify_api_key is entered, 403 or 401 as the FastAPI release has it
RequestWithoutKey(client_ip, endpoint, status) ==
  /\ last' = [op |-> endpoint, request |-> [client_ip |-> client_ip, api_key |-> NoHeader],
              at |-> seconds, before |-> db, response |-> [status |-> status]]
  /\ UNCHANGED <<db, today, ncalls>>
  /\ UNCHANGED auth_vars
  /\ UNCHANGED client_vars

\* a request with the header
RequestWithKey(client_ip, api_key, endpoint) ==
  /\ LET gate == verify_api_key(environ, request_counts, client_ip, api_key, seconds)
         r == IF gate.status = 200 THEN Handle(db, endpoint, today)
              ELSE [db |-> db, status |-> gate.status]
     IN /\ request_counts' = gate.request_counts
        /\ db' = r.db
        /\ last' = [op |-> endpoint,
                    request |-> [client_ip |-> client_ip, api_key |-> api_key],
                    at |-> seconds, before |-> db, response |-> [status |-> r.status]]
  /\ UNCHANGED <<today, ncalls, environ, seconds>>
  /\ UNCHANGED client_vars

\* time passes
Elapse ==
  /\ seconds' = seconds + STEP
  /\ UNCHANGED <<db, today, ncalls, last, environ, request_counts>>
  /\ UNCHANGED client_vars

AuthNext ==
  \/ \E client_ip \in Addresses, endpoint \in Endpoints, status \in {401, 403} :
       RequestWithoutKey(client_ip, endpoint, status)
  \/ \E client_ip \in Addresses, api_key \in ApiKeys, endpoint \in Endpoints :
       /\ client_ip = Busy \/ client_ip \notin DOMAIN request_counts
       /\ RequestWithKey(client_ip, api_key, endpoint)
  \/ seconds < MaxSteps * STEP /\ Elapse

SpecAuth == AuthInit /\ [][AuthNext]_vars

\* ------------------------------------------------------------------------
\* The rate limit on its own: daily stats queries with the configured key
\* and time passing in half windows
\* ------------------------------------------------------------------------
RateInit ==
  /\ Started
  /\ db = EmptyDb
  /\ today = StartDay
  /\ ncalls = 0
  /\ last = [op |-> "none", request |-> <<>>, at |-> 0, before |-> EmptyDb,
             response |-> [status |-> 0]]
  /\ FreshClient

\* half a window passes
Pause ==
  /\ seconds' = seconds + TICK
  /\ UNCHANGED <<db, today, ncalls, last, environ, request_counts>>
  /\ UNCHANGED client_vars

RateNext ==
  \/ \E client_ip \in Addresses :
       /\ client_ip = Busy \/ client_ip \notin DOMAIN request_counts
       /\ RequestWithKey(client_ip, "secret", "daily")
  \/ seconds < MaxTicks * TICK /\ Pause

SpecRate == RateInit /\ [][RateNext]_vars

\* ------------------------------------------------------------------------
\* The client as a state machine. The transport is the environment: each
\* call is given what the transport does with each of its POSTs.
\* ------------------------------------------------------------------------
Configured ==
  [DEFAULT_CONFIG EXCEPT !.server_url = "http://localhost:8420", !.api_key = "key"]

\* a client after cli setup
ConfiguredClient ==
  /\ pending_file = MissingFile
  /\ config_file = save_config(Configured)
  /\ clock = 0
  /\ source = 1
  /\ nclient = 0
  /\ call = NoCall
  /\ NoSnapshots

\* what the transport may do with the n items of one drain
DrainPatterns(n) ==
  IF n <= MaxFreeLen
    THEN [1 .. n -> DrainOutcomes]
    ELSE {[i \in 1 .. n |-> o] : o \in DrainOutcomes}

\* what build_sync_payload may return in the except branch: the local usage
\* data may have changed since the first build
Rebuilds(main) ==
  {source} \cup (IF IsRequestError(main) /\ source <= MaxSource THEN {source + 1} ELSE {})

Record(op, force, out) ==
  [op |-> op, force |-> force, at |-> clock,
   last_success |-> IF out.result.status = "success"
                      THEN isoformat(clock) ELSE call.last_success,
   pending_before |-> pending_file, config_before |-> config_file, out |-> out]

\* cli setup: store the server address and the credential
Setup ==
  /\ config_file' = save_config([load_config(config_file) EXCEPT
                                   !.server_url = Configured.server_url,
                                   !.api_key = Configured.api_key])
  /\ UNCHANGED <<pending_file, clock, source, nclient, call>>
  /\ UNCHANGED snapshot_vars
  /\ UNCHANGED server_vars

\* maybe_auto_sync(force)
MaybeAutoSync(force, outcomes, main, rebuilt) ==
  /\ LET out == maybe_auto_sync(force, pending_file, config_file, clock,
                                outcomes, main, source, rebuilt)
     IN /\ pending_file' = out.pending_file
        /\ config_file' = out.config_file
        /\ call' = Record("maybe_auto_sync", force, out)
        /\ source' = IF out.result.status = "queued" THEN rebuilt ELSE source
  /\ nclient' = nclient + 1
  /\ UNCHANGED clock
  /\ UNCHANGED snapshot_vars
  /\ UNCHANGED server_vars

\* cli sync --retry: process_pending_syncs alone, when the server is configured
Retry(outcomes) ==
  /\ LET cfg == load_config(config_file)
         d == IF cfg.server_url = None \/ cfg.api_key = None
                THEN NoDrain(pending_file)
                ELSE process_pending_syncs(pending_file, outcomes)
         out == Outcome(d.file, config_file, SyncResult("retry", <<>>, 0), d, d.posts)
     IN /\ pending_file' = out.pending_file
        /\ call' = Record("retry", FALSE, out)
  /\ nclient' = nclient + 1
  /\ UNCHANGED <<config_file, clock, source>>
  /\ UNCHANGED snapshot_vars
  /\ UNCHANGED server_vars

ClientTick ==
  /\ clock < MaxClock
  /\ clock' = clock + 1
  /\ UNCHANGED <<pending_file, config_file, source, nclient, call>>
  /\ UNCHANGED snapshot_vars
  /\ UNCHANGED server_vars

\* the local usage data changes
SourceChange ==
  /\ source <= MaxSource
  /\ source' = source + 1
  /\ UNCHANGED <<pending_file, config_file, clock, nclient, call>>
  /\ UNCHANGED snapshot_vars
  /\ UNCHANGED server_vars

ClientNext ==
  \/ Setup
  \/ /\ nclient < MaxClientCalls
     /\ \E force \in BOOLEAN, main \in TransportOutcomes :
          \E rebuilt \in Rebuilds(main),
             outcomes \in DrainPatterns(get_pending_count(pending_file)) :
            MaybeAutoSync(force, outcomes, main, rebuilt)
  \/ /\ nclient < MaxClientCalls
     /\ \E outcomes \in DrainPatterns(get_pending_count(pending_file)) : Retry(outcomes)
  \/ ClientTick
  \/ SourceChange

ConfiguredInit == ServerInit /\ ConfiguredClient

SpecClient == Init /\ [][ClientNext]_vars

\* ------------------------------------------------------------------------
\* The queue alone: enqueue calls on an empty queue, each with a new payload
\* ------------------------------------------------------------------------
QueueSync(payload) ==
  /\ pending_file' = queue_sync(pending_file, payload, clock)
  /\ call' = Record("queue_sync", FALSE,
                    Outcome(queue_sync(pending_file, payload, clock), config_file,
                            SyncResult("none", <<>>, 0), NoDrain(pending_file), <<>>))
  /\ nclient' = nclient + 1
  /\ UNCHANGED <<config_file, clock, source>>
  /\ UNCHANGED snapshot_vars
  /\ UNCHANGED server_vars

QueueNext == nclient < MaxEnqueues /\ QueueSync(nclient + 1)

SpecQueue == Init /\ [][QueueNext]_vars

\* ------------------------------------------------------------------------
\* The queue with its drain: enqueue calls, each with a new payload, and
\* cli sync --retry on a configured client
\* ------------------------------------------------------------------------
DrainNext ==
  \/ nclient < MaxDrainCalls /\ QueueSync(nclient + 1)
  \/ /\ nclient < MaxDrainCalls
     /\ \E outcomes \in DrainPatterns(get_pending_count(pending_file)) : Retry(outcomes)

SpecDrain == ConfiguredInit /\ [][DrainNext]_vars

\* ------------------------------------------------------------------------
\* The client during an outage: forced syncs of a configured client whose
\* new submission fails to connect; the queued items of a call all fail to
\* connect or are all delivered
\* ------------------------------------------------------------------------
OutageNext ==
  /\ nclient < MaxEnqueues
  /\ \E o \in {RequestError("connect"), HttpResponse(200, 2)} :
       MaybeAutoSync(TRUE, [i \in 1 .. get_pending_count(pending_file) |-> o],
                     RequestError("connect"), source)

SpecOutage == ConfiguredInit /\ [][OutageNext]_vars

\* ------------------------------------------------------------------------
\* The client with a failing transport: forced syncs of a configured client,
\* each queued item and each new submission meeting any transport outcome,
\* while the local usage data changes
\* ------------------------------------------------------------------------
AttemptNext ==
  \/ /\ nclient < MaxAttempts
     /\ \E main \in TransportOutcomes :
          \E rebuilt \in Rebuilds(main),
             outcomes \in DrainPatterns(get_pending_count(pending_file)) :
            MaybeAutoSync(TRUE, outcomes, main, rebuilt)
  \/ SourceChange

SpecAttempt == ConfiguredInit /\ [][AttemptNext]_vars

\* ------------------------------------------------------------------------
\* The queue file under processes: queue_sync and process_pending_syncs
\* statement by statement. A process loads the file, works on the list it
\* loaded and writes the file at the end; it may be killed in between, and
\* another process may run between its statements.
\* ------------------------------------------------------------------------
Procs == {1, 2}

\* a process that is in neither function: its locals, and what is remembered
\* of its earlier runs (posted: the POSTs of its last drain; redo: the
\* payloads a drain of it delivered before it was killed)
Idle ==
  [pc |-> "idle", op |-> "none", pending |-> <<>>, i |-> 0, remaining |-> <<>>,
   success |-> 0, payload |-> 0, posted |-> <<>>, redo |-> {}]

\* pending = _load_json(PENDING_SYNCS) or [], the first statement of
\* queue_sync and of process_pending_syncs; "if not pending: return 0, 0"
Loaded(local, op, file, payload) ==
  [local EXCEPT !.pc = IF op = "drain" /\ LoadList(file) = <<>> THEN "idle" ELSE "loaded",
                !.op = op, !.pending = LoadList(file), !.i = 1, !.remaining = <<>>,
                !.success = 0, !.payload = payload, !.posted = <<>>]

\* one pass of the for loop writing the file after the item
LoopPass_SaveEach(local, file, outcome) ==
  LET item == local.pending[local.i]
      remaining == IF Delivered(outcome) THEN local.remaining
                   ELSE Append(local.remaining, item)
  IN [local |-> [local EXCEPT !.i = @ + 1,
                              !.success = IF Delivered(outcome) THEN @ + 1 ELSE @,
                              !.remaining = remaining,
                              !.posted = Append(@, [payload |-> item.payload,
                                                    outcome |-> outcome])],
      file |-> _save_json(remaining \o SubSeq(local.pending, local.i + 1,
                                              Len(local.pending)))]

\* one pass of the for loop of process_pending_syncs: the POST of item i
\* and what the try statement does with its outcome; the file is not written
LoopPass(local, file, outcome) ==
  LET item == local.pending[local.i]
  IN [local |-> [local EXCEPT !.i = @ + 1,
                              !.success = IF Delivered(outcome) THEN @ + 1 ELSE @,
                              !.remaining = IF Delivered(outcome) THEN @
                                            ELSE Append(@, item),
                              !.posted = Append(@, [payload |-> item.payload,
                                                    outcome |-> outcome])],
      file |-> file]

\* the last statement merging what it writes into the file as it is now
SavedQueue_Merged(local, file, now) ==
  IF local.op = "enqueue"
    THEN queue_sync(file, local.payload, now)
    ELSE LET gone == {local.posted[j].payload :
                        j \in {x \in 1 .. Len(local.posted) :
                                 Delivered(local.posted[x].outcome)}}
             Stays(item) == item.payload \notin gone
         IN _save_json(SelectSeq(LoadList(file), Stays))

\* _save_json(PENDING_SYNCS, ...), the last statement of queue_sync (after
\* the eviction and the append) and of process_pending_syncs: the file it
\* writes, from the list the process loaded
SavedQueue(local, file, now) ==
  IF local.op = "enqueue"
    THEN LET kept == IF Len(local.pending) >= MAX_PENDING_SYNCS
                       THEN Tail(local.pending) ELSE local.pending
         IN _save_json(Append(kept, [payload |-> local.payload,
                                     queued_at |-> isoformat(now)]))
    ELSE _save_json(local.remaining)

\* the payloads a drain has delivered so far
DeliveredBy(local) ==
  {local.posted[j].payload :
     j \in {x \in 1 .. Len(local.posted) : Delivered(local.posted[x].outcome)}}

\* the processes, none of them in a call, and what has happened so far: the
\* payloads enqueue calls wrote, the payloads drains delivered, the last step
NoProcs ==
  [proc |-> [p \in Procs |-> Idle], written |-> {}, delivered |-> {},
   step |-> [p |-> 0, kind |-> "none", before |-> MissingFile, local |-> Idle]]

ProcsInit ==
  /\ ServerInit
  /\ pending_file = MissingFile
  /\ config_file = save_config(Configured)
  /\ clock = 0
  /\ source = 1
  /\ nclient = 0
  /\ call = NoProcs
  /\ NoSnapshots

Step(p, kind) ==
  [p |-> p, kind |-> kind, before |-> pending_file, local |-> call.proc[p]]

ProcFrame ==
  /\ UNCHANGED <<config_file, clock, source>>
  /\ UNCHANGED snapshot_vars
  /\ UNCHANGED server_vars

\* process p enters queue_sync with a new payload, or process_pending_syncs
Begin(p, op) ==
  /\ call.proc[p].pc = "idle"
  /\ call' = [call EXCEPT !.proc[p] = Loaded(@, op, pending_file, nclient + 1),
                          !.step = Step(p, "load")]
  /\ nclient' = nclient + 1
  /\ UNCHANGED pending_file
  /\ ProcFrame

\* process p makes the POST of its next item
PostItem(p, outcome) ==
  /\ call.proc[p].pc = "loaded" /\ call.proc[p].op = "drain"
  /\ call.proc[p].i <= Len(call.proc[p].pending)
  /\ LET r == LoopPass(call.proc[p], pending_file, outcome)
     IN /\ pending_file' = r.file
        /\ call' = [call EXCEPT !.proc[p] = r.local,
                                !.delivered = @ \cup DeliveredBy(r.local),
                                !.step = Step(p, "post")]
  /\ UNCHANGED nclient
  /\ ProcFrame

\* process p writes the file and returns
SaveQueue(p) ==
  /\ call.proc[p].pc = "loaded"
  /\ call.proc[p].op = "drain" => call.proc[p].i > Len(call.proc[p].pending)
  /\ pending_file' = SavedQueue(call.proc[p], pending_file, clock)
  /\ call' = [call EXCEPT !.proc[p] = [@ EXCEPT !.pc = "idle",
                                                !.redo = IF call.proc[p].op = "drain"
                                                           THEN {} ELSE @],
                          !.written = IF call.proc[p].op = "enqueue"
                                        THEN @ \cup {call.proc[p].payload} ELSE @,
                          !.step = Step(p, "save")]
  /\ UNCHANGED nclient
  /\ ProcFrame

\* process p is killed inside a call: its locals are gone
Crash(p) ==
  /\ call.proc[p].pc = "loaded"
  /\ call' = [call EXCEPT !.proc[p] = [Idle EXCEPT !.redo = DeliveredBy(call.proc[p])],
                          !.step = Step(p, "crash")]
  /\ UNCHANGED <<pending_file, nclient>>
  /\ ProcFrame

\* one process that may be killed
CrashNext ==
  \/ nclient < MaxProcCalls /\ \E op \in {"enqueue", "drain"} : Begin(1, op)
  \/ \E outcome \in DrainOutcomes : PostItem(1, outcome)
  \/ SaveQueue(1)
  \/ Crash(1)

SpecCrash == ProcsInit /\ [][CrashNext]_vars

\* two processes on the same file
ProcsNext ==
  \E p \in Procs :
    \/ nclient < MaxProcCalls /\ \E op \in {"enqueue", "drain"} : Begin(p, op)
    \/ \E outcome \in DrainOutcomes : PostItem(p, outcome)
    \/ SaveQueue(p)

SpecProcs == ProcsInit /\ [][ProcsNext]_vars

\* ------------------------------------------------------------------------
\* The snapshot store: snapshots of the cumulative model usage are saved as
\* the days pass, and daily deltas are computed from them
\* ------------------------------------------------------------------------
ModelUsage(m, c) ==
  [model |-> m, input_tokens |-> c[1], output_tokens |-> c[2],
   cache_read_tokens |-> c[3], cache_creation_tokens |-> c[4]]

\* what get_local_model_usage may hand to save_usage_snapshot: cumulative
\* counters per model, one of them without the cache fields, and nothing
UsageLists ==
  {<<>>,
   <<ModelUsage("opus", <<100, 10, 0, 0>>)>>,
   <<ModelUsage("opus", <<350, 10, 4, 2>>)>>,
   <<ModelUsage("opus", <<500, 30, 4, 0>>),
     [model |-> "sonnet", input_tokens |-> 50, output_tokens |-> 5]>>}

SaveUsageSnapshot(model_usage) ==
  /\ snapshots_file' = save_usage_snapshot(snapshots_file, model_usage, client_day, clock)
  /\ UNCHANGED <<client_day, deltas>>
  /\ UNCHANGED <<pending_file, config_file, clock, source, nclient, call>>
  /\ UNCHANGED server_vars

ComputeDailyDeltas(days) ==
  /\ deltas' = [at |-> client_day, days |-> days,
                snapshots |-> get_usage_snapshots(snapshots_file),
                result |-> compute_daily_deltas(snapshots_file, client_day, days)]
  /\ UNCHANGED <<snapshots_file, client_day>>
  /\ UNCHANGED <<pending_file, config_file, clock, source, nclient, call>>
  /\ UNCHANGED server_vars

\* midnight
DayPasses ==
  /\ client_day <= MaxSnapshotDays
  /\ client_day' = client_day + 1
  /\ UNCHANGED <<snapshots_file, deltas>>
  /\ UNCHANGED <<pending_file, config_file, clock, source, nclient, call>>
  /\ UNCHANGED server_vars

SnapshotNext ==
  \/ \E model_usage \in UsageLists : SaveUsageSnapshot(model_usage)
  \/ \E days \in 1 .. MaxWindow : ComputeDailyDeltas(days)
  \/ DayPasses

SpecSnapshots == Init /\ [][SnapshotNext]_vars

\* ------------------------------------------------------------------------
\* The queue accounted for: one process makes enqueue, drain, sync and clear
\* calls, each new payload unlike every other, on a queue file that is
\* missing or at its capacity; with the calls, what became
\* of every payload is written down
\* ------------------------------------------------------------------------
\* clear_pending
clear_pending(file) == _save_json(<<>>)

\* a queue file at its capacity, as an outage leaves it
Full ==
  _save_json([i \in 1 .. MAX_PENDING_SYNCS |->
                [payload |-> i, queued_at |-> isoformat(0)]])

\* a queue file holding two items
Pair ==
  _save_json([i \in 1 .. 2 |-> [payload |-> i, queued_at |-> isoformat(0)]])

\* the payload the n-th call builds
Fresh(n) == MAX_PENDING_SYNCS + n

\* what a call does to the two files, the POSTs it makes and, if it adds an
\* item to the queue, the queue it adds it to
LedgerOut(op, outcomes, main, payload) ==
  CASE op = "queue_sync" ->
         [pending_file |-> queue_sync(pending_file, payload, clock),
          config_file |-> config_file, posts |-> <<>>, drained |-> <<>>,
          queued |-> TRUE, onto |-> pending_file]
    [] op = "retry" ->
         LET d == process_pending_syncs(pending_file, outcomes)
         IN [pending_file |-> d.file, config_file |-> config_file, posts |-> d.posts,
             drained |-> d.posts, queued |-> FALSE, onto |-> d.file]
    [] op = "sync" ->
         LET o == maybe_auto_sync(TRUE, pending_file, config_file, clock, outcomes,
                                  main, payload, payload)
         IN [pending_file |-> o.pending_file, config_file |-> o.config_file,
             posts |-> o.posts,
             drained |-> SubSeq(o.posts, 1, get_pending_count(pending_file)),
             queued |-> o.result.status = "queued", onto |-> o.drained]
    [] op = "clear" ->
         [pending_file |-> clear_pending(pending_file), config_file |-> config_file,
          posts |-> <<>>, drained |-> <<>>, queued |-> FALSE, onto |-> pending_file]

LedgerInit ==
  /\ ServerInit
  /\ pending_file \in {MissingFile, Pair, Full}
  /\ config_file = save_config(Configured)
  /\ clock = 0
  /\ source = 1
  /\ nclient = 0
  /\ call = [op |-> "none", before |-> pending_file, drained |-> <<>>,
             enqueued |-> {LoadList(pending_file)[i].payload :
                             i \in 1 .. Len(LoadList(pending_file))},
             delivered |-> {}, evicted |-> {}, cleared |-> {}]
  /\ NoSnapshots

LedgerCall(op, outcomes, main) ==
  /\ LET out == LedgerOut(op, outcomes, main, Fresh(nclient + 1))
         oldest == IF out.queued /\ Len(LoadList(out.onto)) >= MAX_PENDING_SYNCS
                     THEN {LoadList(out.onto)[1].payload} ELSE {}
     IN /\ pending_file' = out.pending_file
        /\ config_file' = out.config_file
        /\ call' = [op |-> op, before |-> pending_file, drained |-> out.drained,
                    enqueued |-> call.enqueued \cup
                                   (IF out.queued THEN {Fresh(nclient + 1)} ELSE {}),
                    delivered |-> call.delivered \cup
                                    {out.drained[i].payload :
                                       i \in {j \in 1 .. Len(out.drained) :
                                                Delivered(out.drained[j].outcome)}},
                    evicted |-> call.evicted \cup oldest,
                    cleared |-> call.cleared \cup
                                  (IF op = "clear"
                                     THEN {LoadList(pending_file)[i].payload :
                                             i \in 1 .. Len(LoadList(pending_file))}
                                     ELSE {})]
  /\ nclient' = nclient + 1
  /\ UNCHANGED <<clock, source>>
  /\ UNCHANGED snapshot_vars
  /\ UNCHANGED server_vars

LedgerNext ==
  /\ nclient < MaxLedgerCalls
  /\ \/ \E op \in {"queue_sync", "clear"} : LedgerCall(op, <<>>, HttpResponse(200, 2))
     \/ \E outcomes \in DrainPatterns(get_pending_count(pending_file)) :
          LedgerCall("retry", outcomes, HttpResponse(200, 2))
     \/ \E main \in TransportOutcomes :
          \E outcomes \in DrainPatterns(get_pending_count(pending_file)) :
            LedgerCall("sync", outcomes, main)

SpecLedger == LedgerInit /\ [][LedgerNext]_vars

\* ------------------------------------------------------------------------
\* The snapshot store with its calls remembered: for each day, the last
\* cumulative usage that was not empty handed to save_usage_snapshot
\* ------------------------------------------------------------------------
NoSaves ==
  [op |-> "none", model_usage |-> <<>>, day |-> 0, before |-> MissingFile,
   saved |-> <<>>]

SavesInit ==
  /\ ServerInit
  /\ pending_file = MissingFile
  /\ config_file = MissingFile
  /\ clock = 0
  /\ source = 1
  /\ nclient = 0
  /\ call = NoSaves
  /\ NoSnapshots

\* save_usage_snapshot(model_usage)
Snapshot(model_usage) ==
  /\ snapshots_file' = save_usage_snapshot(snapshots_file, model_usage, client_day, clock)
  /\ call' = [op |-> "save_usage_snapshot", model_usage |-> model_usage,
              day |-> client_day, before |-> snapshots_file,
              saved |-> IF model_usage = <<>> THEN call.saved
                        ELSE [d \in DOMAIN call.saved \cup {client_day} |->
                                IF d = client_day THEN model_usage ELSE call.saved[d]]]
  /\ UNCHANGED <<client_day, deltas>>
  /\ UNCHANGED <<pending_file, config_file, clock, source, nclient>>
  /\ UNCHANGED server_vars

SavesNext ==
  \/ \E model_usage \in UsageLists : Snapshot(model_usage)
  \/ DayPasses

SpecSaves == SavesInit /\ [][SavesNext]_vars

\* ------------------------------------------------------------------------
\* The client on files found in any condition
\* ------------------------------------------------------------------------
\* a file in a given condition; only a file that is "ok" has a document
FileIn(state, document) ==
  [state |-> state, data |-> IF state = "ok" THEN document ELSE <<>>]

OnePending == <<[payload |-> 1, queued_at |-> isoformat(0)]>>

TwoSnapshots ==
  [d \in {1, 2} |->
     [model_usage |-> <<ModelUsage("opus", <<100 * d, 10, 0, 0>>)>>,
      captured_at |-> isoformat(0)]]

FilesInit ==
  /\ ServerInit
  /\ pending_file \in {FileIn(st, OnePending) : st \in FileStates}
  /\ snapshots_file \in {FileIn(st, TwoSnapshots) : st \in FileStates}
  /\ config_file \in {FileIn(st, Configured) : st \in FileStates}
  /\ clock = 0
  /\ source = 1
  /\ nclient = 0
  /\ call = NoCall
  /\ client_day = 2
  /\ deltas = NoDeltas

\* one of the reads is made
ReadLocal(op, utf8) ==
  /\ call' = [op |-> op, utf8 |-> utf8, pending_before |-> pending_file,
              out |-> LocalRead(op, pending_file, snapshots_file, config_file,
                                client_day, utf8)]
  /\ pending_file' =
       IF op = "process_pending_syncs" /\ ~Escapes(pending_file, utf8)
         THEN process_pending_syncs(
                pending_file,
                [i \in 1 .. Len(LoadList(pending_file)) |-> HttpResponse(200, 2)]).file
         ELSE pending_file
  /\ UNCHANGED <<config_file, clock, source, nclient>>
  /\ UNCHANGED snapshot_vars
  /\ UNCHANGED server_vars

FilesNext == \E op \in LocalReads, utf8 \in BOOLEAN : ReadLocal(op, utf8)

SpecFiles == FilesInit /\ [][FilesNext]_vars

\* ------------------------------------------------------------------------
\* Properties of the server
\* ------------------------------------------------------------------------
\* a table without its timestamp column
Counters(table, fields) ==
  [k \in DOMAIN table |-> [f \in fields |-> table[k][f]]]

\* the stored machines and counters, timestamps left out
StoredCounters(store) ==
  [machines |-> [h \in DOMAIN store.machines |-> store.machines[h].is_active],
   daily_activity |-> Counters(store.daily_activity, ActivityFields),
   daily_usage |-> Counters(store.daily_usage, TokenFields),
   model_usage |-> Counters(store.model_usage, TokenFields)]

RecordCount(request) ==
  Len(request.daily_activity) + Len(request.daily_usage) + Len(request.model_usage)

\* the last request served was a sync whose body passed validation
ValidSyncServed ==
  last.op = "sync" /\ ValidSyncRequest(last.request, last.at)

\* C1: a valid SyncRequest submitted twice in a row: both calls return
\* records_upserted, the second the same number as the first, and the stored
\* machines and counters after the second call are those after the first.
C1_Idempotent ==
  [][(/\ ValidSyncServed
      /\ ncalls' = ncalls + 1
      /\ last'.op = "sync"
      /\ last'.request = last.request
      /\ ValidSyncRequest(last'.request, last'.at))
       => /\ last.response.status = 200
          /\ last'.response.status = 200
          /\ last'.response.records_upserted = last.response.records_upserted
          /\ StoredCounters(db') = StoredCounters(db)]_vars

\* C2: one sync call commits the machine upsert and every record upsert of
\* the submission, or it fails and leaves the store as it was before the call.
C2_Atomic ==
  last.op = "sync" =>
    \/ /\ last.response.status = 200
       /\ db = SyncBody(last.before, last.request, last.at).conn
    \/ /\ last.response.status # 200
       /\ db = last.before

\* C2's case: a call whose body ran the machine upsert and a record upsert
\* and then failed; the store is as before the call.
C2_Witness ==
  /\ ValidSyncServed
  /\ RecordCount(last.request) > 0
  /\ last.response.status = 500
  /\ SyncBody(last.before, last.request, last.at).conn # last.before
  /\ db = last.before

\* the dates of the daily_activity and daily_usage records of a request
RequestDates(request) ==
  {request.daily_activity[i].date : i \in 1 .. Len(request.daily_activity)}
    \cup {request.daily_usage[i].date : i \in 1 .. Len(request.daily_usage)}

\* a calendar date more than MAX_SYNC_DAYS days before `now`, or after it
OutOfWindow(d, now) ==
  d # NotADate /\ (d < now - MAX_SYNC_DAYS \/ d > now)

InWindow(d, now) ==
  d # NotADate /\ now - MAX_SYNC_DAYS <= d /\ d <= now

\* C3: a submission with any record date more than MAX_SYNC_DAYS days old or
\* after today fails validation as a whole (422) and writes nothing; one whose
\* dates all lie between MAX_SYNC_DAYS days ago and today, both included,
\* passes validation.
C3_DateWindow ==
  last.op = "sync" =>
    /\ (\E d \in RequestDates(last.request) : OutOfWindow(d, last.at))
         => (last.response.status = 422 /\ db = last.before)
    /\ (\A d \in RequestDates(last.request) : InWindow(d, last.at))
         => last.response.status # 422

\* C3's case: a request with one record in the window and one out of it was
\* rejected and nothing was written, not even the machine row.
C3_Witness ==
  /\ last.op = "sync"
  /\ \E d \in RequestDates(last.request) : OutOfWindow(d, last.at)
  /\ \E d \in RequestDates(last.request) : InWindow(d, last.at)
  /\ last.response.status = 422
  /\ last.request.hostname \notin DOMAIN db.machines
  /\ db = last.before

\* the last entry of a list for a key is the one a replace-on-conflict keeps
LastFor(records, keyfield, key) ==
  LET idx == {i \in 1 .. Len(records) : records[i][keyfield] = key}
  IN records[CHOOSE i \in idx : \A j \in idx : j <= i]

\* C4: after a valid sync carrying a daily_activity or daily_usage record for
\* (hostname, date) the stored counters of that key are the submitted ones,
\* and rows of dates the submission does not name are unchanged.
C4_Replace ==
  ValidSyncServed =>
    LET r == last.request
        h == r.hostname
        da == {r.daily_activity[i].date : i \in 1 .. Len(r.daily_activity)}
        du == {r.daily_usage[i].date : i \in 1 .. Len(r.daily_usage)}
    IN /\ \A d \in da :
            /\ <<h, d>> \in DOMAIN db.daily_activity
            /\ \A f \in ActivityFields :
                 db.daily_activity[<<h, d>>][f] = LastFor(r.daily_activity, "date", d)[f]
       /\ \A d \in du :
            /\ <<h, d>> \in DOMAIN db.daily_usage
            /\ \A f \in TokenFields :
                 db.daily_usage[<<h, d>>][f] = LastFor(r.daily_usage, "date", d)[f]
       /\ \A k \in DOMAIN last.before.daily_activity :
            (k[1] # h \/ k[2] \notin da) =>
              (k \in DOMAIN db.daily_activity
                 /\ db.daily_activity[k] = last.before.daily_activity[k])
       /\ \A k \in DOMAIN last.before.daily_usage :
            (k[1] # h \/ k[2] \notin du) =>
              (k \in DOMAIN db.daily_usage
                 /\ db.daily_usage[k] = last.before.daily_usage[k])

\* ------------------------------------------------------------------------
\* Properties of the client
\* ------------------------------------------------------------------------
Min(a, b) == IF a <= b THEN a ELSE b

\* the last call was maybe_auto_sync and it reached the POST of the new
\* submission
MainPosted == call.op = "maybe_auto_sync" /\ Len(call.out.posts) > 0

\* the POST of the new submission in the last call: its payload and what the
\* transport did
MainPost == call.out.posts[Len(call.out.posts)]

\* C5: from an empty queue, after n enqueue calls with payloads 1, 2, ..., n
\* the queue holds min(n, MAX_PENDING_SYNCS) items, and list_pending returns
\* the most recently enqueued payloads, oldest first.
C5_BoundedFifo ==
  call.op \in {"none", "queue_sync"} =>
    LET q == list_pending(pending_file)
    IN /\ Len(q) <= MAX_PENDING_SYNCS
       /\ Len(q) = Min(nclient, MAX_PENDING_SYNCS)
       /\ \A i \in 1 .. Len(q) : q[i].payload = nclient - Len(q) + i
       /\ call.op = "queue_sync" /\ Len(LoadList(call.pending_before)) = MAX_PENDING_SYNCS
            => \A i \in 1 .. Len(q) - 1 : q[i] = LoadList(call.pending_before)[i + 1]

\* C5's case: more than MAX_PENDING_SYNCS + 1 payloads were enqueued, the
\* last one into a full queue; the queue is full and its oldest item is the
\* second oldest of the queue before.
C5_Witness ==
  /\ call.op = "queue_sync"
  /\ nclient > MAX_PENDING_SYNCS + 1
  /\ Len(LoadList(call.pending_before)) = MAX_PENDING_SYNCS
  /\ Len(list_pending(pending_file)) = MAX_PENDING_SYNCS
  /\ list_pending(pending_file)[1].payload = nclient - MAX_PENDING_SYNCS + 1

\* the positions of a drain's POSTs whose delivery failed
FailedAt(posts) == {i \in 1 .. Len(posts) : ~Delivered(posts[i].outcome)}

\* C6: process_pending_syncs POSTs every queued item once, in order; the
\* queue it leaves holds the items whose delivery failed, in their order; the
\* pair it returns adds up to the length of the queue before, and its second
\* component is the length of the queue after.
C6_DrainPerItem ==
  call.op = "retry" =>
    LET before == LoadList(call.pending_before)
        after == LoadList(pending_file)
        posts == call.out.posts
        failed == FailedAt(posts)
    IN /\ Len(posts) = Len(before)
       /\ \A i \in 1 .. Len(before) : posts[i].payload = before[i].payload
       /\ Len(after) = Cardinality(failed)
       /\ \A i \in failed : after[Cardinality({j \in failed : j <= i})] = before[i]
       /\ call.out.drain_success + call.out.drain_failed = Len(before)
       /\ call.out.drain_failed = Len(after)

\* C6's case: a drain of three items with different payloads in which the
\* first and the third failed and the second was delivered.
C6_Witness ==
  /\ call.op = "retry"
  /\ Len(LoadList(call.pending_before)) = 3
  /\ FailedAt(call.out.posts) = {1, 3}
  /\ LoadList(pending_file) =
       <<LoadList(call.pending_before)[1], LoadList(call.pending_before)[3]>>
  /\ call.out.drain_success = 1
  /\ call.out.drain_failed = 2

\* the new submission of the last call raised httpx.RequestError
MainUnreachable == MainPosted /\ IsRequestError(MainPost.outcome)

\* the new submission of the last call was answered with an error status
MainRejected == MainPosted /\ IsHTTPStatusError(MainPost.outcome)

\* what the last call recorded in the configuration
FailureRecorded ==
  /\ call.out.result.status = "queued"
  /\ load_config(config_file).last_sync_success = FALSE
  /\ load_config(config_file).last_error = MainPost.outcome.reason

\* C7 as stated: when the POST of the new submission raises a connectivity
\* failure the call returns "queued", the queue is one longer than the drain
\* step left it, with the submitted payload at its end, and the configuration
\* records the failure and its reason.
C7_QueueGrowsByOne ==
  MainUnreachable =>
    /\ FailureRecorded
    /\ Len(LoadList(pending_file)) = Len(LoadList(call.out.drained)) + 1
    /\ LoadList(pending_file)[Len(LoadList(pending_file))].payload = MainPost.payload

\* C7: when the POST of the new submission raises a connectivity failure the
\* call returns "queued" and the configuration records the failure and its
\* reason; the payload built at the failure is appended to the queue the
\* drain step left, after the oldest item is dropped if that queue already
\* holds MAX_PENDING_SYNCS items: the length grows by one below the capacity
\* and stays at the capacity otherwise.
C7_QueuedUpToCapacity ==
  [][(nclient' = nclient + 1 /\ MainUnreachable') =>
       LET drained == LoadList(call'.out.drained)
           after == LoadList(pending_file')
           full == Len(drained) >= MAX_PENDING_SYNCS
       IN /\ FailureRecorded'
          /\ Len(after) = Min(Len(drained) + 1, MAX_PENDING_SYNCS)
          /\ after[Len(after)] = [payload |-> source', queued_at |-> isoformat(clock)]
          /\ \A i \in 1 .. Len(after) - 1 :
               after[i] = drained[IF full THEN i + 1 ELSE i]]_vars

\* C7's case: the submission failed to connect after a drain that left a
\* full queue; the queue is still full, its oldest item is gone and the new
\* payload is at its end.
C7_Witness ==
  /\ MainUnreachable
  /\ Len(LoadList(call.out.drained)) = MAX_PENDING_SYNCS
  /\ Len(LoadList(pending_file)) = MAX_PENDING_SYNCS
  /\ LoadList(pending_file)[1] = LoadList(call.out.drained)[2]
  /\ LoadList(pending_file)[MAX_PENDING_SYNCS].payload = source
  /\ load_config(call.config_before).last_sync_success = FALSE
  /\ FailureRecorded

\* C8: when the new submission is answered with an error status the call
\* returns "error" and the queue is the one the drain step left.
C8_RejectionNotQueued ==
  MainRejected =>
    /\ call.out.result.status = "error"
    /\ pending_file = call.out.drained

\* C8's case: a submission rejected with 401 or 429 after a drain that left
\* an item in the queue; the queue holds that item and nothing else.
C8_Witness ==
  /\ MainRejected
  /\ MainPost.outcome.status \in {401, 429}
  /\ call.out.result.status = "error"
  /\ Len(LoadList(call.out.drained)) = 1
  /\ LoadList(pending_file) = LoadList(call.out.drained)

\* C9: after the new submission is answered with 401 or 429 the stored
\* configuration reads last_sync_success = false.
C9_FlagMarkedFailed ==
  (MainRejected /\ MainPost.outcome.status \in {401, 429}) =>
    load_config(config_file).last_sync_success = FALSE

\* the last call was maybe_auto_sync(force = false) with a recorded last sync
\* at most one hour old
Throttled ==
  /\ call.op = "maybe_auto_sync"
  /\ ~call.force
  /\ load_config(call.config_before).last_sync # NoTime
  /\ call.at - parse_datetime(load_config(call.config_before).last_sync) <= ONE_HOUR

\* C10: maybe_auto_sync(force = false) with a recorded last sync at most one
\* hour old returns "skipped", makes no POST, and leaves the queue file and
\* the configuration file as they were.
C10_ThrottleNoSideEffects ==
  Throttled =>
    /\ call.out.result.status = "skipped"
    /\ call.out.posts = <<>>
    /\ pending_file = call.pending_before
    /\ config_file = call.config_before

\* C10's case: an unforced call exactly one hour after a failed sync, with
\* an item waiting in the queue; it was skipped and the item is still there.
C10_Witness ==
  /\ Throttled
  /\ call.at - parse_datetime(load_config(call.config_before).last_sync) = ONE_HOUR
  /\ Len(LoadList(call.pending_before)) = 1
  /\ call.out.result.status = "skipped"
  /\ call.out.posts = <<>>
  /\ pending_file = call.pending_before

\* the step is an unforced maybe_auto_sync of a configured client
UnforcedCall ==
  /\ nclient' = nclient + 1
  /\ call'.op = "maybe_auto_sync"
  /\ ~call'.force
  /\ load_config(config_file).server_url # None
  /\ load_config(config_file).api_key # None

\* C11: an unforced maybe_auto_sync of a configured client proceeds when no
\* sync has succeeded so far or the last one that succeeded is more than one
\* hour old, whatever attempts ended in "queued" or "error" since.
C11_DependsOnLastSuccess ==
  [][(/\ UnforcedCall
      /\ \/ call.last_success = NoTime
         \/ clock - parse_datetime(call.last_success) > ONE_HOUR)
       => call'.out.result.status # "skipped"]_vars

\* C12: when the POST of the new submission is answered with a success
\* status the call returns "success" with the server's records_upserted, the
\* configuration holds the time of the call as last_sync, last_sync_success
\* true and no last_error, and the queue is the one the drain step left.
C12_SuccessRecorded ==
  (MainPosted /\ Delivered(MainPost.outcome)) =>
    /\ call.out.result.status = "success"
    /\ call.out.result.records_synced = MainPost.outcome.records_upserted
    /\ load_config(config_file).last_sync = isoformat(call.at)
    /\ load_config(config_file).last_sync_success = TRUE
    /\ load_config(config_file).last_error = None
    /\ pending_file = call.out.drained

\* C12's case: a sync that succeeded after a failure was recorded, while the
\* item queued by that failure could not be delivered by the drain step.
C12_Witness ==
  /\ MainPosted
  /\ Delivered(MainPost.outcome)
  /\ load_config(call.config_before).last_sync_success = FALSE
  /\ load_config(call.config_before).last_error # None
  /\ load_config(config_file).last_sync_success = TRUE
  /\ load_config(config_file).last_error = None
  /\ Len(LoadList(pending_file)) = 1
  /\ call.out.result.records_synced = 2

\* ------------------------------------------------------------------------
\* Properties of the snapshot store
\* ------------------------------------------------------------------------
\* the cumulative counter of a model in the snapshot of a date, 0 when the
\* snapshot has no entry for the model or the entry lacks the counter
Cumulative(snapshots, date, model, field) ==
  LET usage == snapshots[date].model_usage
      idx == {i \in 1 .. Len(usage) : usage[i].model = model}
  IN IF idx = {} THEN 0
     ELSE LET u == usage[CHOOSE i \in idx : TRUE]
          IN IF field \in DOMAIN u THEN u[field] ELSE 0

\* how much a model's counter grew between two snapshots, 0 if it did not
Growth(snapshots, prev, curr, model, field) ==
  LET diff == Cumulative(snapshots, curr, model, field)
                - Cumulative(snapshots, prev, model, field)
  IN IF diff >= 0 THEN diff ELSE 0

\* the dates of the snapshots read by the last compute_daily_deltas call
\* that lie in its window, and the one next before a date among them
WindowDates == {d \in DOMAIN deltas.snapshots : d >= deltas.at - deltas.days}

PrevDate(d) == CHOOSE p \in WindowDates : p < d /\ \A q \in WindowDates : q < d => q <= p

\* C13: every token field of every record compute_daily_deltas returns is
\* the sum over the models of max(0, curr - prev) between the record's
\* snapshot and the one before it, so it is never negative and a counter
\* that went down contributes 0.
C13_DeltaClamped ==
  \A i \in 1 .. Len(deltas.result) :
    LET r == deltas.result[i]
    IN /\ r.date \in WindowDates
       /\ \A f \in TokenFields :
            /\ r[f] >= 0
            /\ r[f] = Growth(deltas.snapshots, PrevDate(r.date), r.date, "opus", f)
                        + Growth(deltas.snapshots, PrevDate(r.date), r.date, "sonnet", f)

\* C13's case: between two adjacent snapshots the input_tokens of a model
\* went down from 500 to 100 and the record of the pair has input_tokens 0.
C13_Witness ==
  \E i \in 1 .. Len(deltas.result) :
    LET r == deltas.result[i]
    IN /\ Cumulative(deltas.snapshots, PrevDate(r.date), "opus", "input_tokens") = 500
       /\ Cumulative(deltas.snapshots, r.date, "opus", "input_tokens") = 100
       /\ r.input_tokens = 0
       /\ r.output_tokens = 0

\* C14: with the snapshots of the window at dates d1 < ... < dk,
\* compute_daily_deltas returns k - 1 records, dated d2 .. dk in this order
\* (none when k < 2); each record's total_tokens is the sum of its four token
\* fields, and a model that only one of the two snapshots names counts as 0
\* in the other.
C14_RecordPerPair ==
  LET k == Cardinality(WindowDates)
      n == Len(deltas.result)
  IN /\ n = (IF k < 2 THEN 0 ELSE k - 1)
     /\ \A i \in 1 .. n :
          LET r == deltas.result[i]
          IN /\ r.date \in WindowDates
             /\ Cardinality({d \in WindowDates : d < r.date}) = i
             /\ r.total_tokens = r.input_tokens + r.output_tokens
                                   + r.cache_read_tokens + r.cache_creation_tokens
             /\ r.input_tokens >=
                  Growth(deltas.snapshots, PrevDate(r.date), r.date, "sonnet", "input_tokens")

\* C14's case: snapshots on day 1 (input 100) and day 3 (input 350), none on
\* day 2; one record, dated day 3, with input_tokens 250.
C14_Witness ==
  /\ DOMAIN deltas.snapshots = {1, 3}
  /\ deltas.at = 3
  /\ Cumulative(deltas.snapshots, 1, "opus", "input_tokens") = 100
  /\ Cumulative(deltas.snapshots, 3, "opus", "input_tokens") = 350
  /\ Len(deltas.result) = 1
  /\ deltas.result[1].date = 3
  /\ deltas.result[1].input_tokens = 250

\* ------------------------------------------------------------------------
\* Properties of machine management and the aggregates
\* ------------------------------------------------------------------------
\* the three aggregates of a store, daily stats over the widest window
Aggregates(store) ==
  [daily |-> get_daily_stats(store, today, MaxStatsDays),
   models |-> get_model_stats(store),
   totals |-> get_totals(store)]

\* a store as if the hostname had never been seen
Others(store, hostname) ==
  [t \in DOMAIN store |->
     [k \in {x \in DOMAIN store[t] :
               IF t = "machines" THEN x # hostname ELSE x[1] # hostname} |-> store[t][k]]]

\* the machine had a row and was active before the request
WasActive(store, hostname) ==
  hostname \in DOMAIN store.machines /\ store.machines[hostname].is_active = 1

SoftDeleted ==
  /\ last.op = "delete"
  /\ ~last.request.hard
  /\ WasActive(last.before, last.request.hostname)

ReactivatedAfterSoftDelete ==
  /\ last.op = "reactivate"
  /\ last.prev.op = "delete"
  /\ ~last.prev.request.hard
  /\ last.prev.request.hostname = last.request.hostname
  /\ WasActive(last.prev.before, last.request.hostname)

\* C15: soft-deleting an active machine leaves daily stats, model stats and
\* totals as they would be without the machine, and reactivating it right
\* after makes the three equal to what they were before the soft delete.
C15_SoftDeleteRoundTrip ==
  /\ SoftDeleted =>
       Aggregates(db) = Aggregates(Others(last.before, last.request.hostname))
  /\ ReactivatedAfterSoftDelete =>
       /\ Aggregates(last.before) =
            Aggregates(Others(last.prev.before, last.request.hostname))
       /\ Aggregates(db) = Aggregates(last.prev.before)

\* a machine whose rows count in all three aggregates was soft-deleted and
\* reactivated
C15_Witness ==
  /\ ReactivatedAfterSoftDelete
  /\ Aggregates(last.before).daily # Aggregates(db).daily
  /\ Aggregates(last.before).models # Aggregates(db).models
  /\ Aggregates(last.before).totals # Aggregates(db).totals
  /\ Aggregates(last.before).totals.machine_count > 0

\* the rows a store holds of a hostname, table by table
RowsOf(store, hostname) ==
  [t \in DOMAIN store |->
     [k \in {x \in DOMAIN store[t] :
               IF t = "machines" THEN x = hostname ELSE x[1] = hostname} |-> store[t][k]]]

NoRows == [t \in DOMAIN EmptyDb |-> EmptyTable]

HardDeleted ==
  /\ last.op = "delete"
  /\ last.request.hard
  /\ last.request.hostname \in DOMAIN last.before.machines

ReactivatedAfterHardDelete ==
  /\ last.op = "reactivate"
  /\ last.prev.op = "delete"
  /\ last.prev.request.hard
  /\ last.prev.request.hostname = last.request.hostname

\* C16: a hard delete of a machine leaves no machine row and no
\* daily_activity, daily_usage or model_usage row of its hostname, leaves
\* the rows of every other hostname as they were, and a reactivate of the
\* hostname after it is answered 404 (not found).
C16_HardDeleteCascades ==
  /\ HardDeleted =>
       /\ last.response.status = 200
       /\ RowsOf(db, last.request.hostname) = NoRows
       /\ \A h \in StoredHostnames \ {last.request.hostname} :
            RowsOf(db, h) = RowsOf(last.before, h)
  /\ ReactivatedAfterHardDelete =>
       /\ last.response.status = 404
       /\ db = last.before

\* a machine with rows in all three tables was hard-deleted next to another
\* machine with rows, and then a reactivate of it was asked for
C16_Witness ==
  /\ ReactivatedAfterHardDelete
  /\ \A t \in DOMAIN EmptyDb :
       RowsOf(last.prev.before, last.request.hostname)[t] # EmptyTable
  /\ \E h \in StoredHostnames \ {last.request.hostname} :
       \A t \in DOMAIN EmptyDb : RowsOf(db, h)[t] # EmptyTable

\* the reference aggregation: the active hostnames with a daily_usage row on
\* a date, the dates of the window that have one, and sums taken hostname by
\* hostname
ActiveWithUsage(store, d) ==
  {h \in DOMAIN store.machines :
     store.machines[h].is_active = 1 /\ <<h, d>> \in DOMAIN store.daily_usage}

ReportedDates(store, now, days) ==
  {d \in {k[2] : k \in DOMAIN store.daily_usage} :
     d >= now - days /\ ActiveWithUsage(store, d) # {}}

RECURSIVE SumOver(_, _, _, _)
SumOver(table, hostnames, d, field) ==
  IF hostnames = {} THEN 0
  ELSE LET h == CHOOSE x \in hostnames : TRUE
       IN (IF <<h, d>> \in DOMAIN table THEN table[<<h, d>>][field] ELSE 0)
            + SumOver(table, hostnames \ {h}, d, field)

Active(store) == {h \in DOMAIN store.machines : store.machines[h].is_active = 1}

IsReference(store, now, days, result) ==
  /\ {result[i].date : i \in 1 .. Len(result)} = ReportedDates(store, now, days)
  /\ Len(result) = Cardinality(ReportedDates(store, now, days))
  /\ \A i \in 1 .. Len(result) :
       LET r == result[i]
           hs == ActiveWithUsage(store, r.date)
       IN /\ \A f \in TokenFields : r[f] = SumOver(store.daily_usage, hs, r.date, f)
          /\ r.total_tokens = r.input_tokens + r.output_tokens
                                + r.cache_read_tokens + r.cache_creation_tokens
          /\ {r.machines[j] : j \in 1 .. Len(r.machines)} = hs
          /\ Len(r.machines) = Cardinality(hs)
          /\ \A f \in ActivityFields :
               r[f] = SumOver(store.daily_activity, Active(store), r.date, f)

\* C17: a daily stats query returns one record for each date of its window
\* on which an active machine has a daily_usage row: its token fields are
\* the sums over the active machines, total_tokens the sum of the four, its
\* machines the active hostnames with usage on the date, and its activity
\* fields the sums of the active machines' activity rows of the date (zero
\* when there is none).
C17_DailyStatsReference ==
  last.op = "daily" =>
    IsReference(last.before, last.at, last.request.days, last.response.days)

\* C18: a valid sync for a hostname without a machine row is answered 200
\* with machine_registered true and leaves a machine row of the hostname
\* (whatever its lists hold); a valid sync for a hostname that has a machine
\* row is answered 200 with machine_registered false.
C18_MachineRegistered ==
  ValidSyncServed =>
    /\ last.response.status = 200
    /\ last.request.hostname \in DOMAIN db.machines
    /\ last.response.machine_registered =
         (last.request.hostname \notin DOMAIN last.before.machines)

\* ------------------------------------------------------------------------
\* Properties of access control and the rate limit
\* ------------------------------------------------------------------------
Configured_Key == environ.FORGE_API_KEY # Unset

\* the last request did not carry the key the server expects
BadCredential ==
  /\ last.op \in Endpoints
  /\ last.request.api_key # environ.FORGE_API_KEY

\* C19: with the API key configured, a request to a sync, stats or machines
\* endpoint that has no X-API-Key header or another key than the configured
\* one is answered 401 or 403 and leaves the store as it was.
C19_AccessControl ==
  (Configured_Key /\ BadCredential) =>
    /\ last.response.status \in {401, 403}
    /\ db = last.before

\* the requests of an address that count at a time
InWindow_Count(counts, client_ip, now) ==
  IF client_ip \in DOMAIN counts THEN Len(Recent(counts[client_ip], now)) ELSE 0

\* C20: a request from an address that has RATE_LIMIT requests in the last
\* 60 seconds is answered 429 whatever key it carries, and a request with a
\* wrong or missing key from an address below the cap is counted.
C20_LimitWhateverTheKey ==
  [][(Configured_Key /\ seconds' = seconds) =>
       LET client_ip == last'.request.client_ip
           counted == InWindow_Count(request_counts, client_ip, seconds)
       IN /\ counted >= RATE_LIMIT => last'.response.status = 429
          /\ (counted < RATE_LIMIT /\ last'.request.api_key # environ.FORGE_API_KEY) =>
               InWindow_Count(request_counts', client_ip, seconds) = counted + 1]_vars

\* the timestamps an address has in the 60 seconds before `now`
Within(counts, client_ip, now) ==
  IF client_ip \in DOMAIN counts
    THEN {i \in 1 .. Len(counts[client_ip]) : counts[client_ip][i] > now - WINDOW}
    ELSE {}

\* the timestamps of the window, in the order they were recorded
RECURSIVE Kept(_, _, _)
Kept(times, i, now) ==
  IF i > Len(times) THEN <<>>
  ELSE (IF times[i] > now - WINDOW THEN <<times[i]>> ELSE <<>>) \o Kept(times, i + 1, now)

Tracked(counts, client_ip) == IF client_ip \in DOMAIN counts THEN counts[client_ip] ELSE <<>>

\* the step is a request with the configured key
KeyedRequest ==
  /\ seconds' = seconds
  /\ last'.op \in Endpoints
  /\ last'.request.api_key = environ.FORGE_API_KEY

\* C21: no address ever has more than RATE_LIMIT recorded requests in the
\* 60 seconds before now. A request with the configured key from an address
\* that has RATE_LIMIT of them is answered 429 and not recorded; from an
\* address that has fewer it is let through and recorded. Either way the
\* timestamps of 60 seconds ago and before are dropped from the count.
C21_RateCap ==
  /\ [](\A ip \in Addresses : Cardinality(Within(request_counts, ip, seconds)) <= RATE_LIMIT)
  /\ [][KeyedRequest =>
          LET ip == last'.request.client_ip
              kept == Kept(Tracked(request_counts, ip), 1, seconds)
          IN IF Len(kept) >= RATE_LIMIT
               THEN /\ last'.response.status = 429
                    /\ Tracked(request_counts', ip) = kept
               ELSE /\ last'.response.status # 429
                    /\ Tracked(request_counts', ip) = Append(kept, seconds)]_vars

\* a request is answered 429 a window after the first ones: the 60 that
\* count were recorded at two different times, the later ones after older
\* ones had dropped out
C21_Witness ==
  /\ last.op = "daily"
  /\ last.response.status = 429
  /\ seconds >= WINDOW
  /\ \E i, j \in Within(request_counts, Busy, seconds) :
       request_counts[Busy][i] < request_counts[Busy][j]

\* ------------------------------------------------------------------------
\* Invariants of the store
\* ------------------------------------------------------------------------
DataTables == {"daily_activity", "daily_usage", "model_usage"}

\* the hostnames the rows of the three data tables name
ReferencedHostnames(store) ==
  UNION {{k[1] : k \in DOMAIN store[t]} : t \in DataTables}

DrainOutcomesOf(c) == [i \in 1 .. Len(c.out.posts) - 1 |-> c.out.posts[i].outcome]

\* the new submission of the last call timed out
MainTimedOut == MainPosted /\ MainPost.outcome = RequestError("timeout")

\* C23: when the POST of the new submission times out the call returns
\* "queued", not "error", and leaves the queue and the configuration as a
\* failure to connect would have left them, the recorded reason apart.
C23_TimeoutQueued ==
  [][(nclient' = nclient + 1 /\ MainTimedOut') =>
       LET other == maybe_auto_sync(call'.force, pending_file, config_file, clock,
                                    DrainOutcomesOf(call'), RequestError("connect"),
                                    MainPost'.payload, source')
       IN /\ call'.out.result.status = "queued"
          /\ other.result.status = "queued"
          /\ pending_file' = other.pending_file
          /\ Len(LoadList(pending_file')) = Len(LoadList(call'.out.drained)) + 1
          /\ [load_config(config_file') EXCEPT !.last_error = None] =
               [load_config(other.config_file) EXCEPT !.last_error = None]
          /\ load_config(config_file').last_sync_success = FALSE]_vars

\* the submission timed out after a drain of one item, and the call
\* answered "queued"
C23_Witness ==
  /\ MainTimedOut
  /\ Len(call.out.posts) = 2
  /\ call.out.result.status = "queued"
  /\ LoadList(pending_file) # LoadList(call.out.drained)

\* ------------------------------------------------------------------------
\* Properties of syncs on a store that holds rows
\* ------------------------------------------------------------------------
\* the counters of the records of a list
Negative(records, fields) ==
  \E i \in 1 .. Len(records) : \E f \in fields : records[i][f] < 0

\* one of the fields of the request is out of policy
Malformed(r) ==
  \/ r.protocol_version < 1 \/ r.protocol_version > PROTOCOL_VERSION
  \/ HostnameLength(r.hostname) = 0 \/ HostnameLength(r.hostname) > 255
  \/ Len(r.daily_activity) > MAX_SYNC_DAYS
  \/ Len(r.daily_usage) > MAX_SYNC_DAYS
  \/ \E i \in 1 .. Len(r.model_usage) : r.model_usage[i].model = ""
  \/ Negative(r.daily_activity, ActivityFields)
  \/ Negative(r.daily_usage, TokenFields)
  \/ Negative(r.model_usage, TokenFields)

\* C24: a sync whose protocol_version is outside 1..PROTOCOL_VERSION, whose
\* hostname is empty or longer than 255 characters, whose daily_activity or
\* daily_usage has more than MAX_SYNC_DAYS entries, or that has an empty
\* model name or a negative counter is answered 422 and leaves the store as
\* it was.
C24_ValidationWholesale ==
  (last.op = "sync" /\ Malformed(last.request)) =>
    /\ last.response.status = 422
    /\ db = last.before

\* a sync with a negative counter next to a well-formed record was answered
\* 422 on a store that holds rows of its hostname
C24_Witness ==
  /\ last.op = "sync"
  /\ Negative(last.request.model_usage, TokenFields)
  /\ Len(last.request.daily_activity) = 1
  /\ last.response.status = 422
  /\ last.request.hostname \in ReferencedHostnames(db)

CounterFields(t) == IF t = "daily_activity" THEN ActivityFields ELSE TokenFields

NoData(op) ==
  CASE op = "get_pending_count" -> 0
    [] op = "list_pending" -> <<>>
    [] op = "process_pending_syncs" -> <<0, 0>>
    [] op = "compute_daily_deltas" -> <<>>
    [] op = "load_config" -> DEFAULT_CONFIG

\* the file the last read was made on, as it was then
FileRead ==
  FileOf(call.op, call.pending_before, snapshots_file, config_file)

\* C26: a read of the pending queue, the snapshots or the configuration
\* whose file is missing or damaged does not raise and returns no data: 0,
\* an empty list, (0, 0), no deltas, the default configuration.
C26_ReadsDegrade ==
  (call.op \in LocalReads /\ FileRead.state # "ok") =>
    call.out = Returned(NoData(call.op))

\* the last call went past the checks of maybe_auto_sync into do_sync
Proceeded == call.op = "maybe_auto_sync" /\ call.out.result.status # "skipped"

\* the payloads of the queue, in the order of the queue
QueuedPayloads(file) == [i \in 1 .. Len(LoadList(file)) |-> LoadList(file)[i].payload]

\* the payloads of the POSTs of a call, in the order they were made
PostedPayloads(c) == [i \in 1 .. Len(c.out.posts) |-> c.out.posts[i].payload]

\* every queued item of the last call failed, and there was one at least
AllDrainedFailed ==
  /\ Len(call.out.posts) > 1
  /\ \A i \in 1 .. Len(call.out.posts) - 1 : ~Delivered(call.out.posts[i].outcome)

\* C27: a sync that proceeds POSTs every item of the queue, in the order of
\* the queue, and then POSTs the payload built from the local usage data,
\* once and last, whatever happened to the queued items, all of them
\* failing included.
C27_DrainThenSubmit ==
  [][(nclient' = nclient + 1 /\ Proceeded') =>
       PostedPayloads(call') = Append(QueuedPayloads(pending_file), source)]_vars

\* two queued items both failed and the new submission, a payload that the
\* first of them does not carry, was POSTed after them
C27_Witness ==
  /\ Proceeded
  /\ AllDrainedFailed
  /\ Len(call.out.posts) = 3
  /\ call.out.drain_failed = 2
  /\ MainPost.payload # call.out.posts[1].payload

\* ------------------------------------------------------------------------
\* More properties of the store
\* ------------------------------------------------------------------------
\* the last request was a valid sync of a machine that was soft-deleted
InactiveSubmitted ==
  /\ ValidSyncServed
  /\ last.request.hostname \in DOMAIN last.before.machines
  /\ last.before.machines[last.request.hostname].is_active = 0

\* the keys of a table that belong to the hostname
KeysOf(store, table, hostname) == {k \in DOMAIN store[table] : k[1] = hostname}

\* C28: a valid sync of a soft-deleted machine is answered 200 and leaves the
\* machine active with the first_seen it had, and every row of the machine,
\* the ones it had and the ones of the request, counts in the aggregates.
C28_SyncReactivates ==
  InactiveSubmitted =>
    LET hostname == last.request.hostname
    IN /\ last.response.status = 200
       /\ db.machines[hostname].is_active = 1
       /\ db.machines[hostname].first_seen = last.before.machines[hostname].first_seen
       /\ \A t \in DataTables :
            /\ KeysOf(last.before, t, hostname) \subseteq KeysOf(db, t, hostname)
            /\ KeysOf(db, t, hostname) \subseteq ActiveKeys(db, db[t])

\* the last request was a soft delete or a reactivate
FlagRequested ==
  \/ last.op = "delete" /\ ~last.request.hard
  \/ last.op = "reactivate"

\* the flag the last request asked for
RequestedFlag == IF last.op = "reactivate" THEN 1 ELSE 0

\* a machine row with its active flag left out
Unflagged(row) == [first_seen |-> row.first_seen, last_sync |-> row.last_sync]

\* C29: a soft delete or a reactivate of a hostname that has a machine row is
\* answered 200 and changes that row's is_active and nothing else: the three
\* data tables and every other machine row are as before; on a hostname
\* without a machine row it is answered 404 and the store is as before.
C29_OnlyTheFlag ==
  FlagRequested =>
    LET hostname == last.request.hostname
    IN IF hostname \in DOMAIN last.before.machines
         THEN /\ last.response.status = 200
              /\ \A t \in DataTables : db[t] = last.before[t]
              /\ DOMAIN db.machines = DOMAIN last.before.machines
              /\ \A m \in DOMAIN db.machines :
                   IF m = hostname
                     THEN /\ db.machines[m].is_active = RequestedFlag
                          /\ Unflagged(db.machines[m]) = Unflagged(last.before.machines[m])
                     ELSE db.machines[m] = last.before.machines[m]
         ELSE /\ last.response.status = 404
              /\ db = last.before

\* an active machine with rows in the three tables was soft-deleted beside
\* another machine with rows, right after a reactivate of a hostname that
\* had no machine row
C29_Witness ==
  /\ last.op = "delete" /\ ~last.request.hard
  /\ WasActive(last.before, last.request.hostname)
  /\ \A t \in DataTables : KeysOf(db, t, last.request.hostname) # {}
  /\ ReferencedHostnames(db) \ {last.request.hostname} # {}
  /\ last.prev.op = "reactivate"
  /\ last.prev.request.hostname \notin DOMAIN last.prev.before.machines

\* the working state of the connection after the statements of a sync
Written(store, request, now) == SyncBody(store, request, now).conn

\* the store after a sync
Committed(store, request, now) == sync(store, request, now).db

\* the valid requests of another hostname
OtherSubmissions(hostname) == {r \in WellFormed : r.hostname # hostname}

\* C30: a sync leaves every row of every other hostname as it was, in the
\* store and in what its statements write before the transaction ends; and
\* with a valid sync of another hostname, made at another time, both orders
\* give the same store and the same written rows.
C30_HostnamesIndependent ==
  last.op = "sync" =>
    LET A == last.request.hostname
        s == last.before
        now == last.at
    IN /\ Others(db, A) = Others(s, A)
       /\ ValidSyncServed =>
            /\ Others(Written(s, last.request, now), A) = Others(s, A)
            /\ \A r \in OtherSubmissions(A) :
                 /\ Committed(Committed(s, last.request, now), r, now + 1) =
                      Committed(Committed(s, r, now + 1), last.request, now)
                 /\ Written(Written(s, last.request, now), r, now + 1) =
                      Written(Written(s, r, now + 1), last.request, now)

\* a valid sync with records of its own was served while another hostname
\* held rows, one of them a usage row of a date the request names
C30_Witness ==
  /\ ValidSyncServed
  /\ last.request.daily_usage # <<>>
  /\ Written(last.before, last.request, last.at) # last.before
  /\ \E k \in DOMAIN last.before.daily_usage :
       /\ k[1] # last.request.hostname
       /\ k[2] = last.request.daily_usage[1].date

\* ------------------------------------------------------------------------
\* Properties of the queue file under processes
\* ------------------------------------------------------------------------
\* the payloads of the items of a queue file
PayloadsIn(file) == {LoadList(file)[j].payload : j \in 1 .. Len(LoadList(file))}

\* the SyncRequest build_sync_payload makes of the local usage data when
\* they are in their n-th state
RequestOf(n) ==
  SyncOf("h1", <<ActivityRecord(StartDay, <<n, 1, 0>>)>>,
         <<UsageRecord(StartDay, <<n, n, 0, 0>>)>>,
         <<ModelRecord("opus", <<100 * n, n, 0, 0>>)>>)

\* the drain of the process has made the POST of every item it loaded
LoopDone(local) ==
  local.pc = "loaded" /\ local.op = "drain" /\ local.i > Len(local.pending)

\* the server given the same request a second time, later: the store it
\* leaves, and the counters its statements write
Redelivered(store, request, now) ==
  /\ Committed(Committed(store, request, now), request, now + 1) =
       Committed(store, request, now)
  /\ StoredCounters(Written(Written(store, request, now), request, now + 1)) =
       StoredCounters(Written(store, request, now))

\* C31: a process killed inside a drain leaves the queue file as the drain
\* found it, with the items the drain had delivered still in it; the next
\* drain POSTs each of them again; and the server given a delivered payload
\* again leaves the store, and the counters it writes, as the first delivery
\* did.
C31_PersistedOncePerDrain ==
  /\ call.step.kind = "crash" =>
       /\ pending_file = call.step.before
       /\ call.step.local.op = "drain" =>
            /\ LoadList(pending_file) = call.step.local.pending
            /\ call.proc[call.step.p].redo \subseteq PayloadsIn(pending_file)
  /\ \A p \in Procs :
       LoopDone(call.proc[p]) =>
         call.proc[p].redo \subseteq
           {call.proc[p].posted[j].payload : j \in 1 .. Len(call.proc[p].posted)}
  /\ \A n \in call.delivered : Redelivered(db, RequestOf(n), today)

\* a drain that follows a killed one has made its POSTs, two at least, and
\* delivered again a payload the killed drain had delivered
C31_Witness ==
  /\ LoopDone(call.proc[1])
  /\ Len(call.proc[1].posted) >= 2
  /\ call.proc[1].redo \cap DeliveredBy(call.proc[1]) # {}

\* the payloads of a list of queue items
PayloadsOf(items) == {items[j].payload : j \in 1 .. Len(items)}

\* the last step was the write that ends a call of the given function
Saved(op) == call.step.kind = "save" /\ call.step.local.op = op

\* nobody wrote the file between the load and the write of the last call
Undisturbed == LoadList(call.step.before) = call.step.local.pending

\* what the transport did with the items of the drain that just ended
OutcomesOf(local) == [j \in 1 .. Len(local.posted) |-> local.posted[j].outcome]

\* C32: the write that ends an enqueue or a drain leaves in the file the
\* list the process loaded, with its payload added or without the items it
\* delivered, whatever another process wrote since the load; when nobody
\* wrote since the load the file is the one the whole call makes of the
\* file it found, so nothing but the delivered items is gone.
C32_LastWriterWins ==
  /\ Saved("enqueue") =>
       /\ PayloadsIn(pending_file) =
            PayloadsOf(call.step.local.pending) \cup {call.step.local.payload}
       /\ Undisturbed =>
            pending_file = queue_sync(call.step.before, call.step.local.payload, clock)
  /\ Saved("drain") =>
       /\ PayloadsIn(pending_file) =
            PayloadsOf(call.step.local.pending) \ DeliveredBy(call.step.local)
       /\ Undisturbed =>
            /\ pending_file =
                 process_pending_syncs(call.step.before, OutcomesOf(call.step.local)).file
            /\ PayloadsIn(call.step.before) \ PayloadsIn(pending_file)
                 \subseteq call.delivered

\* a write took out of the file an item another process had enqueued since
\* the writer's load, an item nobody delivered
C32_Witness ==
  /\ call.step.kind = "save"
  /\ \E n \in call.written \ call.delivered :
       /\ n \in PayloadsIn(call.step.before)
       /\ n \notin PayloadsOf(call.step.local.pending)
       /\ n \notin PayloadsIn(pending_file)

\* ------------------------------------------------------------------------
\* sync_usage statement by statement, under two handlers at once. Each opens
\* its own connection (get_db); sqlite3 starts a transaction before the
\* first INSERT of a connection, and from then to the commit or rollback
\* the connection holds the write lock of the database file: another
\* connection's INSERT waits for it and raises "database is locked" when
\* the wait times out.
\* ------------------------------------------------------------------------
\* the INSERT statements of the three loops, in the order they run
Statements(request) ==
  [j \in 1 .. Len(request.daily_activity) |->
     [table |-> "daily_activity", record |-> request.daily_activity[j]]]
  \o [j \in 1 .. Len(request.daily_usage) |->
        [table |-> "daily_usage", record |-> request.daily_usage[j]]]
  \o [j \in 1 .. Len(request.model_usage) |->
        [table |-> "model_usage", record |-> request.model_usage[j]]]

\* conn.execute of one of them
Execute(conn, hostname, stmt, now) ==
  CASE stmt.table = "daily_activity" ->
         [conn EXCEPT !.daily_activity = UpsertDailyActivity(@, hostname, stmt.record, now)]
    [] stmt.table = "daily_usage" ->
         [conn EXCEPT !.daily_usage = UpsertDailyUsage(@, hostname, stmt.record, now)]
    [] stmt.table = "model_usage" ->
         [conn EXCEPT !.model_usage = UpsertModelUsage(@, hostname, stmt.record, now)]

\* a database file without a write lock
CanWrite_Always(lock, p) == TRUE

\* the write lock of the database file: free, or held by the connection
CanWrite(lock, p) == lock = 0 \/ lock = p

\* a handler that serves no request
NoHandler ==
  [pc |-> "idle", request |-> NoRequest, registered |-> FALSE, conn |-> EmptyDb,
   i |-> 0, status |-> 0]

ConcurrentInit ==
  /\ Started
  /\ db \in {EmptyDb, Stored(EmptyDb, "h1", <<OneDay, 1>>)}
  /\ today = StartDay
  /\ ncalls = 0
  /\ last = [proc |-> [p \in Procs |-> NoHandler], lock |-> 0, initial |-> db,
             served |-> <<>>]
  /\ FreshClient

HandlerFrame ==
  /\ UNCHANGED today
  /\ UNCHANGED auth_vars
  /\ UNCHANGED client_vars

\* handler p is given a request that passed validation
Receive(p, request) ==
  /\ last.proc[p].pc \in {"idle", "done"}
  /\ ValidSyncRequest(request, today)
  /\ last' = [last EXCEPT !.proc[p] = [NoHandler EXCEPT !.pc = "select",
                                                        !.request = request]]
  /\ ncalls' = ncalls + 1
  /\ UNCHANGED db
  /\ HandlerFrame

\* SELECT id FROM machines WHERE hostname = ?
Select(p) ==
  /\ last.proc[p].pc = "select"
  /\ last' = [last EXCEPT !.proc[p].pc = "machine",
                          !.proc[p].registered =
                            last.proc[p].request.hostname \notin DOMAIN db.machines]
  /\ UNCHANGED <<db, ncalls>>
  /\ HandlerFrame

\* the INSERT INTO machines: the transaction begins and takes the write lock
FirstWrite(p) ==
  /\ last.proc[p].pc = "machine"
  /\ CanWrite(last.lock, p)
  /\ last' = [last EXCEPT !.lock = p,
                          !.proc[p].pc = "records",
                          !.proc[p].i = 1,
                          !.proc[p].conn =
                            [db EXCEPT !.machines =
                               UpsertMachine(@, last.proc[p].request.hostname, today)]]
  /\ UNCHANGED <<db, ncalls>>
  /\ HandlerFrame

\* the INSERT INTO machines gives up waiting for the lock: sqlite3 raises
\* OperationalError, get_db rolls back and the endpoint answers 500
Locked(p) ==
  /\ last.proc[p].pc = "machine"
  /\ ~CanWrite(last.lock, p)
  /\ last' = [last EXCEPT !.proc[p].pc = "done", !.proc[p].status = 500]
  /\ UNCHANGED <<db, ncalls>>
  /\ HandlerFrame

\* the next INSERT of the three loops
UpsertRecord(p) ==
  /\ last.proc[p].pc = "records"
  /\ last.proc[p].i <= Len(Statements(last.proc[p].request))
  /\ last' = [last EXCEPT !.proc[p].i = @ + 1,
                          !.proc[p].conn =
                            Execute(@, last.proc[p].request.hostname,
                                    Statements(last.proc[p].request)[last.proc[p].i],
                                    today)]
  /\ UNCHANGED <<db, ncalls>>
  /\ HandlerFrame

\* "for record in request.raw_usage" and the end of "with get_db()": commit
\* or rollback, the lock is released, the endpoint answers
Finish(p) ==
  /\ last.proc[p].pc = "records"
  /\ last.proc[p].i > Len(Statements(last.proc[p].request))
  /\ db' = get_db(db, [conn |-> last.proc[p].conn, raised |-> ~HasRawUsage])
  /\ last' = [last EXCEPT !.lock = 0,
                          !.proc[p].pc = "done",
                          !.proc[p].status = IF HasRawUsage THEN 200 ELSE 500,
                          !.served = Append(@, last.proc[p].request)]
  /\ UNCHANGED ncalls
  /\ HandlerFrame

ConcurrentNext ==
  \E p \in Procs :
    \/ /\ ncalls < MaxSubmissions
       /\ \E n \in 1 .. 2 : Receive(p, RequestOf(n))
    \/ Select(p)
    \/ FirstWrite(p)
    \/ Locked(p)
    \/ UpsertRecord(p)
    \/ Finish(p)

SpecConcurrent == ConcurrentInit /\ [][ConcurrentNext]_vars

\* ------------------------------------------------------------------------
\* Properties of concurrent submissions
\* ------------------------------------------------------------------------
\* handler p is between two INSERT statements of its loops
MidRecords(p) ==
  /\ last.proc[p].pc = "records"
  /\ last.proc[p].i > 1
  /\ last.proc[p].i <= Len(Statements(last.proc[p].request))

\* handler q has a submission of the same hostname with other counters, and
\* its first INSERT is next
Competes(q, p) ==
  /\ q # p
  /\ last.proc[q].pc = "machine"
  /\ last.proc[q].request.hostname = last.proc[p].request.hostname
  /\ last.proc[q].request # last.proc[p].request

\* the store after the requests are served one after the other
RECURSIVE Serially(_, _, _)
Serially(store, requests, now) ==
  IF requests = <<>> THEN store
  ELSE Serially(Committed(store, Head(requests), now), Tail(requests), now)

\* C33 as stated: while one submission is between two of its upserts, a
\* concurrent submission for the same hostname can run an upsert of its own.
C33_PerRecordInterleaving ==
  \A p \in Procs, q \in Procs :
    (MidRecords(p) /\ Competes(q, p)) => CanWrite(last.lock, q)

\* C33: submissions are serialized. From its first INSERT to its commit or
\* rollback a submission holds the write lock and no other submission
\* writes; what it has written when its loops end is what the same request
\* writes when served alone on the committed store; and the committed store
\* is the one the finished submissions leave when served one after the other
\* in the order they finished.
C33_SubmissionsSerialized ==
  /\ \A p \in Procs :
       last.proc[p].pc = "records" =>
         /\ last.lock = p
         /\ \A q \in Procs \ {p} : last.proc[q].pc # "records"
         /\ last.proc[p].i > Len(Statements(last.proc[p].request)) =>
              last.proc[p].conn = Written(db, last.proc[p].request, today)
  /\ db = Serially(last.initial, last.served, today)

\* one submission is between two of its upserts while another for the same
\* hostname, with other counters for the same keys, is about to write
C33_Witness ==
  \E p \in Procs, q \in Procs : MidRecords(p) /\ Competes(q, p)

\* ------------------------------------------------------------------------
\* More properties of the snapshot store
\* ------------------------------------------------------------------------
\* C34: the snapshot store holds one snapshot for each day on which a usage
\* that was not empty was saved and for no other day, and it is the usage
\* saved last on that day; a call leaves the snapshots of the other days as
\* they were, and a call with an empty usage leaves the file as it was.
C34_OneSnapshotPerDay ==
  LET snapshots == get_usage_snapshots(snapshots_file)
  IN /\ DOMAIN snapshots = DOMAIN call.saved
     /\ \A d \in DOMAIN snapshots : snapshots[d].model_usage = call.saved[d]
     /\ call.op = "save_usage_snapshot" =>
          /\ \A d \in DOMAIN get_usage_snapshots(call.before) \ {call.day} :
               d \in DOMAIN snapshots /\ snapshots[d] = get_usage_snapshots(call.before)[d]
          /\ call.model_usage = <<>> => snapshots_file = call.before

\* a day that had a snapshot got another one, beside the snapshot of an
\* earlier day
C34_Witness ==
  /\ call.op = "save_usage_snapshot"
  /\ call.model_usage # <<>>
  /\ call.day \in DOMAIN get_usage_snapshots(call.before)
  /\ get_usage_snapshots(call.before)[call.day].model_usage # call.model_usage
  /\ DOMAIN get_usage_snapshots(snapshots_file) \ {call.day} # {}

\* ------------------------------------------------------------------------
\* Properties of model usage
\* ------------------------------------------------------------------------
\* the stored row of the hostname and model, its timestamp left out
StoredModel(store, hostname, model) ==
  [f \in TokenFields |-> store.model_usage[<<hostname, model>>][f]]

\* the rows of the model that active machines other than the hostname hold
OtherActive(store, hostname, model) ==
  {k \in ActiveKeys(store, store.model_usage) : k[1] # hostname /\ k[2] = model}

\* C35: a valid sync with model records is answered 200; for each record the
\* stored row of (hostname, model) holds the submitted counters, lower than
\* the stored ones or not; and model_stats reports for the model the
\* submitted counters plus those of the other active machines.
C35_ModelUsageReplaced ==
  (ValidSyncServed /\ last.request.model_usage # <<>>) =>
    /\ last.response.status = 200
    /\ \A i \in 1 .. Len(last.request.model_usage) :
         LET rec == last.request.model_usage[i]
             hostname == last.request.hostname
         IN /\ <<hostname, rec.model>> \in DOMAIN db.model_usage
            /\ StoredModel(db, hostname, rec.model) = [f \in TokenFields |-> rec[f]]
            /\ rec.model \in DOMAIN get_model_stats(db)
            /\ \A f \in TokenFields :
                 get_model_stats(db)[rec.model][f] =
                   rec[f] + Sum(last.before.model_usage,
                                OtherActive(last.before, hostname, rec.model), f)

\* ------------------------------------------------------------------------
\* The tables as SQLite holds them: rows with a rowid (id INTEGER PRIMARY
\* KEY), a key (hostname; hostname and date; hostname and model) and the
\* other columns. A table may hold any set of rows; what keeps the keys
\* apart is the ON CONFLICT clause of each INSERT of sync_usage.
\* ------------------------------------------------------------------------
NoRowsYet == [t \in DOMAIN EmptyDb |-> {}]

\* the rowid SQLite gives a new row: one more than the largest in the table
NextId(rows) ==
  IF rows = {} THEN 1
  ELSE 1 + CHOOSE n \in {r.id : r \in rows} : \A r \in rows : r.id <= n

\* INSERT without an ON CONFLICT clause, on a table without UNIQUE
InsertOnConflict_Insert(rows, key, new, set) ==
  rows \cup {[id |-> NextId(rows), key |-> key, values |-> new]}

\* INSERT INTO t ... VALUES new ON CONFLICT(key) DO UPDATE SET set
InsertOnConflict(rows, key, new, set) ==
  IF \E r \in rows : r.key = key
    THEN {IF r.key = key
            THEN [r EXCEPT !.values = [f \in DOMAIN @ |->
                                         IF f \in DOMAIN set THEN set[f] ELSE @[f]]]
            ELSE r : r \in rows}
    ELSE rows \cup {[id |-> NextId(rows), key |-> key, values |-> new]}

\* the columns an INSERT of the loops gives: the counters of the record and
\* updated_at
ColumnsOf(stmt, now) ==
  [f \in (DOMAIN stmt.record \ {"date", "model"}) \cup {"updated_at"} |->
     IF f = "updated_at" THEN now ELSE stmt.record[f]]

KeyOf(hostname, stmt) ==
  <<hostname, IF stmt.table = "model_usage" THEN stmt.record.model ELSE stmt.record.date>>

\* the INSERT statements of the loops from statement i on
RECURSIVE InsertLoops(_, _, _, _, _)
InsertLoops(conn, hostname, stmts, i, now) ==
  IF i > Len(stmts) THEN conn
  ELSE InsertLoops([conn EXCEPT ![stmts[i].table] =
                      InsertOnConflict(@, KeyOf(hostname, stmts[i]),
                                       ColumnsOf(stmts[i], now), ColumnsOf(stmts[i], now))],
                   hostname, stmts, i + 1, now)

\* the statements of sync_usage up to the raw_usage loop
InsertAll(conn, request, now) ==
  InsertLoops([conn EXCEPT !.machines =
                 InsertOnConflict(@, request.hostname,
                                  [first_seen |-> now, last_sync |-> now, is_active |-> 1],
                                  [last_sync |-> now, is_active |-> 1])],
              request.hostname, Statements(request), 1, now)

\* submissions that name a date or a model twice, beside plain ones
Submissions ==
  {RequestOf(1), RequestOf(2),
   SyncOf("h2", <<>>, <<>>, <<>>),
   SyncOf("h1", <<ActivityRecord(StartDay, <<4, 2, 0>>), ActivityRecord(StartDay, <<9, 3, 1>>)>>,
          <<>>, <<>>),
   SyncOf("h1", <<>>,
          <<UsageRecord(StartDay, <<1, 2, 3, 4>>), UsageRecord(StartDay - 1, <<5, 5, 5, 5>>),
            UsageRecord(StartDay, <<7, 7, 0, 0>>)>>, <<>>),
   SyncOf("h2", <<>>, <<>>,
          <<ModelRecord("opus", <<500, 100, 7, 3>>), ModelRecord("opus", <<100, 50, 0, 0>>)>>)}

\* database files earlier processes left: what the statements of one or two
\* submissions write
RowFiles ==
  {NoRowsYet}
  \cup {InsertAll(NoRowsYet, r, StartDay) : r \in Submissions}
  \cup {InsertAll(InsertAll(NoRowsYet, RequestOf(1), StartDay), r, StartDay) :
          r \in Submissions}

RowsInit ==
  /\ Started
  /\ db \in RowFiles
  /\ today = StartDay
  /\ ncalls = 0
  /\ last = [op |-> "none", request |-> NoRequest, before |-> NoRowsYet,
             written |-> NoRowsYet, status |-> 0]
  /\ FreshClient

\* POST /v1/sync with a body that passes validation
SyncRows(request) ==
  /\ ValidSyncRequest(request, today)
  /\ LET written == InsertAll(db, request, today)
     IN /\ db' = get_db(db, [conn |-> written, raised |-> ~HasRawUsage])
        /\ last' = [op |-> "sync", request |-> request, before |-> db,
                    written |-> written,
                    status |-> IF HasRawUsage THEN 200 ELSE 500]
  /\ ncalls' = ncalls + 1
  /\ HandlerFrame

RowsNext == ncalls < MaxCalls /\ \E request \in Submissions : SyncRows(request)

SpecRows == RowsInit /\ [][RowsNext]_vars

\* ------------------------------------------------------------------------
\* Properties of the keys
\* ------------------------------------------------------------------------
\* no two rows of a table have the same key
UniqueKeys(store) ==
  \A t \in DOMAIN store : \A r \in store[t], s \in store[t] : r.key = s.key => r = s

\* the tables as functions of their keys
ByKey(store) ==
  [t \in DOMAIN store |->
     [k \in {r.key : r \in store[t]} |-> (CHOOSE r \in store[t] : r.key = k).values]]

\* the last statement of a submission that names the key
LastNaming(hostname, stmts, table, key) ==
  stmts[CHOOSE i \in 1 .. Len(stmts) :
          /\ stmts[i].table = table /\ KeyOf(hostname, stmts[i]) = key
          /\ \A j \in i + 1 .. Len(stmts) :
               ~(stmts[j].table = table /\ KeyOf(hostname, stmts[j]) = key)]

\* a submission names a date or a model twice
NamesTwice(request) ==
  \E i \in 1 .. Len(Statements(request)), j \in 1 .. Len(Statements(request)) :
    /\ i < j
    /\ Statements(request)[i].table = Statements(request)[j].table
    /\ KeyOf(request.hostname, Statements(request)[i]) =
         KeyOf(request.hostname, Statements(request)[j])
    /\ Statements(request)[i].record # Statements(request)[j].record

\* C36: no table of the store ever holds two rows with the same key, and
\* neither do the tables the statements of a submission have written when
\* its loops end: for each key the submission names there is one row, with
\* the counters of the last entry that names it, and the tables are those
\* the keyed upserts give.
C36_KeysUnique ==
  /\ UniqueKeys(db)
  /\ last.op = "sync" =>
       /\ UniqueKeys(last.written)
       /\ Cardinality(last.written.machines) <= Cardinality(last.before.machines) + 1
       /\ \A i \in 1 .. Len(Statements(last.request)) :
            LET stmt == Statements(last.request)[i]
                key == KeyOf(last.request.hostname, stmt)
                rows == {r \in last.written[stmt.table] : r.key = key}
            IN /\ Cardinality(rows) = 1
               /\ \A r \in rows :
                    r.values = ColumnsOf(LastNaming(last.request.hostname,
                                                    Statements(last.request), stmt.table,
                                                    key),
                                         today)
       /\ ByKey(last.written) = Written(ByKey(last.before), last.request, today)

\* a submission that names a date or a model twice was served on a store
\* that had a row of that key
C36_Witness ==
  /\ last.op = "sync"
  /\ NamesTwice(last.request)
  /\ \E i \in 1 .. Len(Statements(last.request)) :
       \E r \in last.before[Statements(last.request)[i].table] :
         r.key = KeyOf(last.request.hostname, Statements(last.request)[i])

\* ------------------------------------------------------------------------
\* Referential integrity
\* ------------------------------------------------------------------------
\* every row of the three data tables names a hostname with a machine row
Referenced(store) ==
  \A t \in DataTables : \A k \in DOMAIN store[t] : k[1] \in DOMAIN store.machines

\* C37: after any sequence of syncs, soft deletes, hard deletes and
\* reactivates every daily_activity, daily_usage and model_usage row has a
\* hostname for which a machine row exists; so has every row the statements
\* of a valid sync have written when its loops end.
C37_ReferentialIntegrity ==
  /\ Referenced(db)
  /\ ValidSyncServed => Referenced(Written(last.before, last.request, last.at))

\* a machine with rows in the three tables was hard-deleted right after a
\* sync, and another machine keeps its rows
C37_Witness ==
  /\ HardDeleted
  /\ \A t \in DataTables : KeysOf(last.before, t, last.request.hostname) # {}
  /\ last.prev.op = "sync"
  /\ ReferencedHostnames(db) # {}

\* ------------------------------------------------------------------------
\* Properties of the queue accounted for
\* ------------------------------------------------------------------------
\* C38: every payload ever enqueued is in the queue, or was delivered by a
\* drain, or was the oldest item when an enqueue found the queue at its
\* capacity, or was in the queue when it was cleared; the queue holds
\* enqueued payloads only; and an item whose POST in the drain of the last
\* call failed is in the queue after the call, unless the enqueue of that
\* same call evicted it.
C38_NoSilentLoss ==
  /\ PayloadsIn(pending_file) \subseteq call.enqueued
  /\ call.enqueued \ (call.delivered \cup call.evicted \cup call.cleared)
       \subseteq PayloadsIn(pending_file)
  /\ \A i \in 1 .. Len(call.drained) :
       ~Delivered(call.drained[i].outcome) =>
         call.drained[i].payload \in PayloadsIn(pending_file) \cup call.evicted

\* a drain in which the server rejected every item of a queue that is at its
\* capacity, after an enqueue evicted the oldest item
C38_Witness ==
  /\ call.op = "retry"
  /\ Len(call.drained) = MAX_PENDING_SYNCS
  /\ \A i \in 1 .. Len(call.drained) : IsHTTPStatusError(call.drained[i].outcome)
  /\ call.evicted # {}

\* ------------------------------------------------------------------------
\* Properties of the drain and a rejecting server
\* ------------------------------------------------------------------------
PayloadSeq(items) == [j \in 1 .. Len(items) |-> items[j].payload]

\* the payloads the enqueue of the step evicts
EvictedNow == call'.evicted \ call.evicted

\* C39: a drain POSTs every item of the queue, in the order of the queue, so
\* an item rejected before is POSTed again; an item the server answers with
\* an HTTP error status is in the queue after the call, unless the enqueue of
\* the same call finds the queue at its capacity and evicts it; and an item
\* leaves the queue only when its POST is delivered, when the queue is
\* cleared, or when an enqueue evicts it.
C39_RejectedStays ==
  [][/\ call'.op \in {"retry", "sync"} =>
          PayloadSeq(call'.drained) = PayloadSeq(LoadList(pending_file))
     /\ \A i \in 1 .. Len(call'.drained) :
          IsHTTPStatusError(call'.drained[i].outcome) =>
            call'.drained[i].payload \in PayloadsIn(pending_file') \cup EvictedNow
     /\ \A p \in PayloadsIn(pending_file) \ PayloadsIn(pending_file') :
          \/ \E i \in 1 .. Len(call'.drained) :
               call'.drained[i].payload = p /\ Delivered(call'.drained[i].outcome)
          \/ call'.op = "clear"
          \/ p \in EvictedNow]_vars

\* the second of two drains in a row: the first delivered nothing, the second
\* has the first item rejected again and the second delivered
C39_Witness ==
  /\ nclient = 2
  /\ call.op = "retry"
  /\ call.before = Pair
  /\ Len(call.drained) = 2
  /\ IsHTTPStatusError(call.drained[1].outcome)
  /\ Delivered(call.drained[2].outcome)
  /\ PayloadSeq(LoadList(pending_file)) = <<1>>

\* ------------------------------------------------------------------------
\* The client and the server together: the transport carries each POST of
\* the client to the endpoint, or fails to connect while the outage lasts.
\* Every request passes verify_api_key: the client holds the server's key
\* and its address is under the rate limit.
\* ------------------------------------------------------------------------
\* one POST of /v1/sync: what the client gets and the store the server is
\* left with; the submission is committed exactly when the answer is 200
Post(store, payload, connected, now) ==
  IF ~connected
    THEN [db |-> store, outcome |-> RequestError("connect"), committed |-> FALSE]
    ELSE LET s == sync(store, RequestOf(payload), now)
             ok == s.response.status = 200
         IN [db |-> s.db,
             outcome |-> HttpResponse(s.response.status,
                                      IF ok THEN s.response.records_upserted ELSE 0),
             committed |-> ok]

\* the POSTs of one drain reaching the server one after the other, from
\* item i on: each POST is made once, on the store the one before it left
RECURSIVE PostEach(_, _, _, _, _)
PostEach(store, pending, i, connected, now) ==
  IF i > Len(pending) THEN [db |-> store, outcomes |-> <<>>, applied |-> {}]
  ELSE CHOOSE made \in
         UNION {{[db |-> rest.db, outcomes |-> <<p.outcome>> \o rest.outcomes,
                  applied |-> (IF p.committed THEN {pending[i].payload} ELSE {})
                                \cup rest.applied] :
                   rest \in {PostEach(p.db, pending, i + 1, connected, now)}} :
                  p \in {Post(store, pending[i].payload, connected, now)}} : TRUE

\* a configured client, an initialised server and the outage between them
DeliveryInit ==
  /\ environ = [FORGE_API_KEY |-> Configured.api_key]
  /\ request_counts = NoCounts
  /\ seconds = 0
  /\ db = EmptyDb
  /\ today = StartDay
  /\ ncalls = 0
  /\ last = [connected |-> FALSE, owed |-> {}, applied |-> {}]
  /\ pending_file = MissingFile
  /\ config_file = save_config(Configured)
  /\ clock = 0
  /\ source = 1
  /\ nclient = 0
  /\ call = [op |-> "none", force |-> FALSE, status |-> "none", posts |-> <<>>]
  /\ NoSnapshots

\* maybe_auto_sync(force) with its POSTs answered by the server; the payload
\* built is a new one while the outage lasts
SyncAttempt(force) ==
  /\ \E d \in {PostEach(db, LoadList(pending_file), 1, last.connected, today)} :
     \E m \in {Post(d.db, nclient + 1, last.connected, today)} :
     \E out \in {maybe_auto_sync(force, pending_file, config_file, clock,
                                 d.outcomes, m.outcome, nclient + 1, nclient + 1)} :
     LET payload == nclient + 1
         proceeds == out.result.status # "skipped"
     IN /\ pending_file' = out.pending_file
        /\ config_file' = out.config_file
        /\ db' = IF proceeds THEN m.db ELSE db
        /\ last' = [last EXCEPT !.applied =
                      IF proceeds
                        THEN @ \cup d.applied
                               \cup (IF m.committed THEN {payload} ELSE {})
                        ELSE @]
        /\ call' = [op |-> "sync", force |-> force, status |-> out.result.status,
                    posts |-> out.posts]
        /\ nclient' = IF proceeds /\ ~last.connected THEN nclient + 1 ELSE nclient
  /\ UNCHANGED <<clock, source>>
  /\ UNCHANGED snapshot_vars
  /\ UNCHANGED <<today, ncalls, environ, request_counts, seconds>>

\* cli sync --retry with its POSTs answered by the server
RetryAttempt ==
  /\ \E d \in {PostEach(db, LoadList(pending_file), 1, last.connected, today)} :
     \E r \in {process_pending_syncs(pending_file, d.outcomes)} :
        /\ pending_file' = r.file
        /\ db' = d.db
        /\ last' = [last EXCEPT !.applied = @ \cup d.applied]
        /\ call' = [op |-> "retry", force |-> FALSE, status |-> "none",
                    posts |-> r.posts]
  /\ UNCHANGED <<config_file, clock, source, nclient>>
  /\ UNCHANGED snapshot_vars
  /\ UNCHANGED <<today, ncalls, environ, request_counts, seconds>>

\* the outage ends, for good: from here on every POST reaches the server
Reconnect ==
  /\ ~last.connected
  /\ last' = [last EXCEPT !.connected = TRUE, !.owed = PayloadsIn(pending_file)]
  /\ UNCHANGED <<db, today, ncalls, environ, request_counts, seconds>>
  /\ UNCHANGED client_vars

DeliveryNext ==
  \/ \E force \in BOOLEAN :
       /\ last.connected \/ nclient < MaxOutageCalls
       /\ SyncAttempt(force)
  \/ RetryAttempt
  \/ Reconnect
  \/ ClientTick

\* sync attempts that proceed keep being made
SpecDelivery ==
  DeliveryInit /\ [][DeliveryNext]_vars /\ WF_vars(SyncAttempt(TRUE))

\* ------------------------------------------------------------------------
\* Properties of eventual delivery
\* ------------------------------------------------------------------------
\* C40: once the outage has ended and while sync attempts keep being made,
\* the queue becomes empty and every payload that was queued when the outage
\* ended has been committed by the server.
C40_EventualDelivery ==
  last.connected ~>
    (get_pending_count(pending_file) = 0 /\ last.owed \subseteq last.applied)

====
